---- MODULE Spec2Model ----
(***************************************************************************)
(* Model of the N8AI-ChatBot query pipeline: SQL generation clean-up, the  *)
(* SQL safety validator, warehouse execution, and the send_message view    *)
(* with its audit log.                                                     *)
(*                                                                         *)
(* A text (Python str) is a sequence of one-character strings, so that     *)
(* strip(), upper(), the regular expressions and the tokenizer are         *)
(* computed character by character.                                        *)
(***************************************************************************)
EXTENDS Integers, Sequences, FiniteSets, TLC

(***************************************************************************)
(* Characters                                                              *)
(***************************************************************************)
LowerLetters ==
    <<"a", "b", "c", "d", "e", "f", "g", "h", "i", "j", "k", "l", "m",
      "n", "o", "p", "q", "r", "s", "t", "u", "v", "w", "x", "y", "z">>

UpperLetters ==
    <<"A", "B", "C", "D", "E", "F", "G", "H", "I", "J", "K", "L", "M",
      "N", "O", "P", "Q", "R", "S", "T", "U", "V", "W", "X", "Y", "Z">>

LetterCount == Len(LowerLetters)

LowerSet == {LowerLetters[i] : i \in 1..LetterCount}

UpperSet == {UpperLetters[i] : i \in 1..LetterCount}

DigitSet == {"0", "1", "2", "3", "4", "5", "6", "7", "8", "9"}

\* \w of the re module
WordChars == LowerSet \cup UpperSet \cup DigitSet \cup {"_"}

\* \s of the re module, and the characters str.strip() removes
SpaceChars == {" ", "\n", "\t", "\r"}

UpperMap ==
    [c \in LowerSet |-> UpperLetters[CHOOSE i \in 1..LetterCount : LowerLetters[i] = c]]

UpperChar(c) == IF c \in LowerSet THEN UpperMap[c] ELSE c

IsSpace(c) == c \in SpaceChars

\* The grave accent (U+0060), which a TLA+ string cannot hold: this one
\* value stands for that one character
Backtick == "[grave]"

IsWordChar(c) == c \in WordChars

(***************************************************************************)
(* str methods                                                             *)
(***************************************************************************)
str_upper(s) == [i \in 1..Len(s) |-> UpperChar(s[i])]

str_strip(s) ==
    LET keep == {i \in 1..Len(s) : ~IsSpace(s[i])}
    IN  IF keep = {} THEN <<>>
        ELSE LET lo == CHOOSE i \in keep : \A j \in keep : i <= j
                 hi == CHOOSE i \in keep : \A j \in keep : j <= i
             IN  SubSeq(s, lo, hi)

\* s[i:].startswith(p), i counted from 1
StartsWithAt(s, i, p) ==
    /\ i >= 1
    /\ i + Len(p) - 1 <= Len(s)
    /\ \A j \in 1..Len(p) : s[i + j - 1] = p[j]

str_startswith(s, p) == StartsWithAt(s, 1, p)

str_endswith(s, p) == StartsWithAt(s, Len(s) - Len(p) + 1, p)

\* p in s
str_contains(s, p) == \E i \in 1..(Len(s) + 1) : StartsWithAt(s, i, p)

\* s.count(c) for a one-character c
str_count(s, c) == Cardinality({i \in 1..Len(s) : s[i] = c})

(***************************************************************************)
(* The part of the re module the validator uses.  A pattern is a sequence  *)
(* of elements <<op, arg>>:                                                *)
(*   <<"lit", c>>  the character c        <<"ws+", "">>  \s+               *)
(*   <<"ws*", "">> \s*                    <<"any", "">>  .*? (no DOTALL)   *)
(*   <<"eos", "">> $                      <<"wb", "">>   \b                *)
(***************************************************************************)
Lit(chars) == [i \in 1..Len(chars) |-> <<"lit", chars[i]>>]

WsPlus == <<"ws+", "">>

WsStar == <<"ws*", "">>

AnyLazy == <<"any", "">>

EndOfString == <<"eos", "">>

WordBoundary == <<"wb", "">>

WordAt(s, i) == i >= 1 /\ i <= Len(s) /\ IsWordChar(s[i])

CharEq(a, b, ignorecase) ==
    IF ignorecase THEN UpperChar(a) = UpperChar(b) ELSE a = b

RECURSIVE re_match_at(_, _, _, _, _)
re_match_at(pat, k, s, i, ignorecase) ==
    IF k > Len(pat) THEN TRUE
    ELSE LET op == pat[k][1]
             arg == pat[k][2]
         IN  CASE op = "lit" ->
                    /\ i <= Len(s)
                    /\ CharEq(s[i], arg, ignorecase)
                    /\ re_match_at(pat, k + 1, s, i + 1, ignorecase)
               [] op = "ws+" ->
                    \E j \in (i + 1)..(Len(s) + 1) :
                        /\ \A m \in i..(j - 1) : IsSpace(s[m])
                        /\ re_match_at(pat, k + 1, s, j, ignorecase)
               [] op = "ws*" ->
                    \E j \in i..(Len(s) + 1) :
                        /\ \A m \in i..(j - 1) : IsSpace(s[m])
                        /\ re_match_at(pat, k + 1, s, j, ignorecase)
               [] op = "any" ->
                    \E j \in i..(Len(s) + 1) :
                        /\ \A m \in i..(j - 1) : s[m] # "\n"
                        /\ re_match_at(pat, k + 1, s, j, ignorecase)
               [] op = "eos" ->
                    /\ \/ i = Len(s) + 1
                       \/ i = Len(s) /\ s[i] = "\n"
                    /\ re_match_at(pat, k + 1, s, i, ignorecase)
               [] op = "wb" ->
                    /\ WordAt(s, i - 1) # WordAt(s, i)
                    /\ re_match_at(pat, k + 1, s, i, ignorecase)

re_search(pat, s, ignorecase) ==
    \E i \in 1..(Len(s) + 1) : re_match_at(pat, 1, s, i, ignorecase)

(***************************************************************************)
(* SQLSecurityValidator: the class attributes                              *)
(***************************************************************************)
KW_DROP == <<"D", "R", "O", "P">>

KW_TRUNCATE == <<"T", "R", "U", "N", "C", "A", "T", "E">>

KW_DELETE == <<"D", "E", "L", "E", "T", "E">>

KW_UPDATE == <<"U", "P", "D", "A", "T", "E">>

KW_INSERT == <<"I", "N", "S", "E", "R", "T">>

KW_ALTER == <<"A", "L", "T", "E", "R">>

KW_CREATE == <<"C", "R", "E", "A", "T", "E">>

KW_GRANT == <<"G", "R", "A", "N", "T">>

KW_REVOKE == <<"R", "E", "V", "O", "K", "E">>

KW_EXECUTE == <<"E", "X", "E", "C", "U", "T", "E">>

KW_EXEC == <<"E", "X", "E", "C">>

KW_EXECUTE_IMMEDIATE ==
    <<"E", "X", "E", "C", "U", "T", "E", " ", "I", "M", "M", "E", "D", "I", "A", "T", "E">>

KW_MERGE == <<"M", "E", "R", "G", "E">>

KW_UPSERT == <<"U", "P", "S", "E", "R", "T">>

KW_REPLACE == <<"R", "E", "P", "L", "A", "C", "E">>

KW_RENAME == <<"R", "E", "N", "A", "M", "E">>

KW_MODIFY == <<"M", "O", "D", "I", "F", "Y">>

\* A Python set: its iteration order is not fixed
DANGEROUS_KEYWORDS ==
    {KW_DROP, KW_TRUNCATE, KW_DELETE, KW_UPDATE, KW_INSERT, KW_ALTER, KW_CREATE,
     KW_GRANT, KW_REVOKE, KW_EXECUTE, KW_EXEC, KW_EXECUTE_IMMEDIATE,
     KW_MERGE, KW_UPSERT, KW_REPLACE, KW_RENAME, KW_MODIFY}

FN_pg_read_file == <<"p", "g", "_", "r", "e", "a", "d", "_", "f", "i", "l", "e">>

FN_pg_ls_dir == <<"p", "g", "_", "l", "s", "_", "d", "i", "r">>

FN_pg_stat_file == <<"p", "g", "_", "s", "t", "a", "t", "_", "f", "i", "l", "e">>

FN_pg_read_binary_file ==
    <<"p", "g", "_", "r", "e", "a", "d", "_", "b", "i", "n", "a", "r", "y", "_", "f", "i", "l", "e">>

FN_system == <<"s", "y", "s", "t", "e", "m">>

FN_exec == <<"e", "x", "e", "c">>

FN_eval == <<"e", "v", "a", "l">>

FN_shell_exec == <<"s", "h", "e", "l", "l", "_", "e", "x", "e", "c">>

FN_passthru == <<"p", "a", "s", "s", "t", "h", "r", "u">>

\* A Python set as well
DANGEROUS_FUNCTIONS ==
    {FN_pg_read_file, FN_pg_ls_dir, FN_pg_stat_file, FN_pg_read_binary_file,
     FN_system, FN_exec, FN_eval, FN_shell_exec, FN_passthru}

W_SELECT == <<"S", "E", "L", "E", "C", "T">>

W_UNION == <<"U", "N", "I", "O", "N">>

W_ALL == <<"A", "L", "L">>

W_OR == <<"O", "R">>

W_AND == <<"A", "N", "D">>

W_TRUE == <<"T", "R", "U", "E">>

OneEqOne == <<<<"lit", "1">>, WsStar, <<"lit", "=">>, WsStar, <<"lit", "1">>>>

PAT_LINE_COMMENT == Lit(<<"-", "-">>) \o <<WsStar, EndOfString>>

PAT_BLOCK_COMMENT == Lit(<<"/", "*">>) \o <<AnyLazy>> \o Lit(<<"*", "/">>)

PAT_UNION_ALL == Lit(W_UNION) \o <<WsPlus>> \o Lit(W_ALL)

PAT_UNION_SELECT == Lit(W_UNION) \o <<WsPlus>> \o Lit(W_SELECT)

PAT_OR_1_1 == Lit(W_OR) \o <<WsPlus>> \o OneEqOne

PAT_OR_TRUE == Lit(W_OR) \o <<WsPlus>> \o Lit(W_TRUE)

PAT_AND_1_1 == Lit(W_AND) \o <<WsPlus>> \o OneEqOne

\* A Python list: searched in this order
INJECTION_PATTERNS ==
    <<PAT_LINE_COMMENT, PAT_BLOCK_COMMENT, PAT_UNION_ALL, PAT_UNION_SELECT,
      PAT_OR_1_1, PAT_OR_TRUE, PAT_AND_1_1>>

\* The pattern sources, as the rejection message quotes them
PATTERN_SOURCES ==
    << <<"--\\s*$">>, <<"/\\*.*?\\*/">>, <<"UNION\\s+ALL">>, <<"UNION\\s+SELECT">>,
       <<"OR\\s+1\\s*=\\s*1">>, <<"OR\\s+TRUE">>, <<"AND\\s+1\\s*=\\s*1">> >>

\* r'\b' + re.escape(keyword) + r'\b'
KeywordPattern(keyword) == <<WordBoundary>> \o Lit(keyword) \o <<WordBoundary>>

(***************************************************************************)
(* sqlparse.parse, as far as the validator reads its result: the lexer     *)
(* (its rules in their order, for the characters letters, digits, _,       *)
(* white space, quotes, ; ( ) , * = - /), the statement splitter and the   *)
(* grouping of parentheses.  Of the token types only DML, Punctuation,     *)
(* Whitespace, Newline and Comment.Single are read by the validator or the *)
(* splitter; every other word is given the type Name.  The words BEGIN,    *)
(* END, DECLARE, which move the splitter's level, are not part of any      *)
(* text of this model.                                                     *)
(***************************************************************************)
Tok(ttype, value) == [ttype |-> ttype, value |-> value]

\* sqlparse.keywords: the words of type Keyword.DML
KW_DML == {W_SELECT, KW_INSERT, KW_DELETE, KW_UPDATE, KW_UPSERT, KW_REPLACE, KW_MERGE}

PunctuationChars == {";", ":", "(", ")", "[", "]", ",", "."}

ComparisonChars == {"<", ">", "=", "~", "!"}

OperatorChars == {"+", "/", "@", "#", "%", "^", "&", "|", "-"}

\* Last index of the longest run of characters of chars that starts at i
RECURSIVE RunEnd(_, _, _)
RunEnd(s, i, chars) ==
    IF i + 1 <= Len(s) /\ s[i + 1] \in chars THEN RunEnd(s, i + 1, chars) ELSE i

\* (--|# ).*?(\r\n|\r|\n|$): through the first line break, or to the end
RECURSIVE LineCommentEnd(_, _)
LineCommentEnd(s, i) ==
    IF i >= Len(s) THEN Len(s)
    ELSE IF s[i] = "\n" THEN i
    ELSE IF s[i] = "\r"
         THEN (IF s[i + 1] = "\n" THEN i + 1 ELSE i)
    ELSE LineCommentEnd(s, i + 1)

\* /\*[\s\S]*?\*/ : index of the closing '/', 0 when the comment is not closed
BlockCommentEnd(s, i) ==
    LET closes == {j \in (i + 2)..(Len(s) - 1) : s[j] = "*" /\ s[j + 1] = "/"}
    IN  IF closes = {} THEN 0
        ELSE (CHOOSE j \in closes : \A m \in closes : j <= m) + 1

\* q(qq|[^q])*q from the character after the opening quote: index of the
\* closing quote, 0 when there is none (the greedy choice is the doubled quote)
RECURSIVE QuotedEnd(_, _, _)
QuotedEnd(s, p, q) ==
    IF p > Len(s) THEN 0
    ELSE IF s[p] # q THEN QuotedEnd(s, p + 1, q)
    ELSE IF p + 1 <= Len(s) /\ s[p + 1] = q /\ QuotedEnd(s, p + 2, q) # 0
         THEN QuotedEnd(s, p + 2, q)
    ELSE p

\* (?![_A-Z])-?\d+(?![_A-Z]) at i: last index of the number, 0 for no match
NumberEnd(s, i) ==
    LET d == IF s[i] = "-" THEN i + 1 ELSE i
    IN  IF d > Len(s) \/ s[d] \notin DigitSet THEN 0
        ELSE LET e == RunEnd(s, d, DigitSet)
                 blocked == e + 1 <= Len(s) /\ UpperChar(s[e + 1]) \in (UpperSet \cup {"_"})
             IN  IF ~blocked THEN e
                 ELSE IF e > d THEN e - 1
                 ELSE 0

\* is_keyword: the type of a word
is_keyword(value) == IF str_upper(value) \in KW_DML THEN "DML" ELSE "Name"

\* The token that starts at i: its type and the index of its last character
NextToken(s, i) ==
    LET c == s[i]
        w == RunEnd(s, i, WordChars)
    IN  IF StartsWithAt(s, i, <<"-", "-">>)
        THEN [ttype |-> "Comment.Single", last |-> LineCommentEnd(s, i + 2)]
        ELSE IF StartsWithAt(s, i, <<"/", "*">>) /\ BlockCommentEnd(s, i) # 0
        THEN [ttype |-> "Comment.Multiline", last |-> BlockCommentEnd(s, i)]
        ELSE IF c = "\r" /\ i + 1 <= Len(s) /\ s[i + 1] = "\n"
        THEN [ttype |-> "Newline", last |-> i + 1]
        ELSE IF c \in {"\r", "\n"}
        THEN [ttype |-> "Newline", last |-> i]
        ELSE IF IsSpace(c)
        THEN [ttype |-> "Whitespace", last |-> i]
        ELSE IF c = "*"
        THEN [ttype |-> "Wildcard", last |-> i]
        ELSE IF c = Backtick /\ QuotedEnd(s, i + 1, Backtick) # 0
        THEN [ttype |-> "Name", last |-> QuotedEnd(s, i + 1, Backtick)]
        ELSE IF UpperChar(c) \in UpperSet /\ w + 1 <= Len(s) /\ s[w + 1] = "("
        THEN [ttype |-> "Name", last |-> w]
        ELSE IF NumberEnd(s, i) # 0
        THEN [ttype |-> "Number", last |-> NumberEnd(s, i)]
        ELSE IF c = "'" /\ QuotedEnd(s, i + 1, "'") # 0
        THEN [ttype |-> "String.Single", last |-> QuotedEnd(s, i + 1, "'")]
        ELSE IF IsWordChar(c)
        THEN [ttype |-> is_keyword(SubSeq(s, i, w)), last |-> w]
        ELSE IF c \in PunctuationChars
        THEN [ttype |-> "Punctuation", last |-> i]
        ELSE IF c \in ComparisonChars
        THEN [ttype |-> "Comparison", last |-> RunEnd(s, i, ComparisonChars)]
        ELSE IF c \in OperatorChars
        THEN [ttype |-> "Operator", last |-> RunEnd(s, i, OperatorChars)]
        ELSE [ttype |-> "Error", last |-> i]

\* Lexer.get_tokens
RECURSIVE tokenize(_, _)
tokenize(s, i) ==
    IF i > Len(s) THEN <<>>
    ELSE LET t == NextToken(s, i)
         IN  <<Tok(t.ttype, SubSeq(s, i, t.last))>> \o tokenize(s, t.last + 1)

\* StatementSplitter._change_splitlevel, for statements without CREATE
change_splitlevel(tok) ==
    IF tok.ttype = "Punctuation" /\ tok.value = <<"(">> THEN 1
    ELSE IF tok.ttype = "Punctuation" /\ tok.value = <<")">> THEN -1
    ELSE 0

EOS_TTYPE == {"Whitespace", "Comment.Single"}

IsWhitespaceTok(tok) == tok.ttype \in {"Whitespace", "Newline"}

\* StatementSplitter.process: the statements, each a sequence of tokens.
\* cur is the statement being collected.
RECURSIVE split_statements(_, _, _, _, _)
split_statements(toks, j, cur, level, consume_ws) ==
    IF j > Len(toks)
    THEN (IF cur # <<>> /\ \E m \in 1..Len(cur) : ~IsWhitespaceTok(cur[m])
          THEN <<cur>> ELSE <<>>)
    ELSE IF consume_ws /\ toks[j].ttype \notin EOS_TTYPE
    THEN <<cur>> \o split_statements(toks, j, <<>>, 0, FALSE)
    ELSE LET lv == level + change_splitlevel(toks[j])
         IN  split_statements(toks, j + 1, Append(cur, toks[j]), lv,
                 consume_ws \/ (lv <= 0 /\ toks[j].ttype = "Punctuation"
                                        /\ toks[j].value = <<";">>))

\* grouping._group_matching for Parenthesis: the matched pairs <<open, close>>
RECURSIVE paren_pairs(_, _, _)
paren_pairs(toks, j, opens) ==
    IF j > Len(toks) THEN {}
    ELSE IF toks[j].ttype = "Punctuation" /\ toks[j].value = <<"(">>
    THEN paren_pairs(toks, j + 1, <<j>> \o opens)
    ELSE IF toks[j].ttype = "Punctuation" /\ toks[j].value = <<")">> /\ opens # <<>>
    THEN {<<Head(opens), j>>} \cup paren_pairs(toks, j + 1, Tail(opens))
    ELSE paren_pairs(toks, j + 1, opens)

\* A parsed statement: its leaf tokens in order, each with the number of
\* Parenthesis groups around it (0: a member of statement.tokens itself)
group_statement(toks) ==
    LET pairs == paren_pairs(toks, 1, <<>>)
    IN  [tokens |-> toks,
         depth |-> [j \in 1..Len(toks) |->
                       Cardinality({p \in pairs : p[1] <= j /\ j <= p[2]})]]

\* sqlparse.parse(sql): the tuple of grouped statements
sqlparse_parse(sql) ==
    LET stmts == split_statements(tokenize(sql, 1), 1, <<>>, 0, FALSE)
    IN  [n \in 1..Len(stmts) |-> group_statement(stmts[n])]

RECURSIVE concat_values(_)
concat_values(toks) ==
    IF toks = <<>> THEN <<>> ELSE Head(toks).value \o concat_values(Tail(toks))

\* str(statement)
statement_str(statement) == concat_values(statement.tokens)

(***************************************************************************)
(* SQLSecurityValidator                                                    *)
(***************************************************************************)
\* _is_select_statement: a DML token SELECT among statement.tokens
is_select_statement(statement) ==
    \E j \in 1..Len(statement.tokens) :
        /\ statement.depth[j] = 0
        /\ statement.tokens[j].ttype = "DML"
        /\ str_upper(statement.tokens[j].value) = W_SELECT

\* _has_nested_dml: the walk enters every group, so it meets every leaf token
has_nested_dml(statement) ==
    \E j \in 1..Len(statement.tokens) :
        /\ statement.tokens[j].ttype = "DML"
        /\ str_upper(statement.tokens[j].value) # W_SELECT

\* _has_multiple_statements
has_multiple_statements(statement) ==
    str_count(statement_str(statement), ";") > 1

\* _validate_statement_structure
validate_statement_structure(statement) ==
    IF has_nested_dml(statement) THEN FALSE
    ELSE IF has_multiple_statements(statement) THEN FALSE
    ELSE TRUE

\* A message f"{rule}: {arg}": the fixed wording and the text put into it
Msg(rule, arg) == <<rule, arg>>

\* The pair validate_sql returns: is_safe and the error message
Verdict(is_safe, rule, arg) == [is_safe |-> is_safe, reason |-> Msg(rule, arg)]

\* The blocklisted keywords found as whole words in the normalised text
keyword_hits(normalised) ==
    {keyword \in DANGEROUS_KEYWORDS : re_search(KeywordPattern(keyword), normalised, FALSE)}

\* The blocklisted function names found in the normalised text
function_hits(normalised) ==
    {func \in DANGEROUS_FUNCTIONS : str_contains(normalised, str_upper(func))}

\* The injection patterns found in the normalised text, by list index
pattern_hits(normalised) ==
    {n \in 1..Len(INJECTION_PATTERNS) : re_search(INJECTION_PATTERNS[n], normalised, TRUE)}

\* The checks after the blocklists: parse, classify, structure
validate_parsed(normalised) ==
    LET parsed == sqlparse_parse(normalised)
    IN  IF parsed = <<>>
        THEN Verdict(FALSE, "Invalid SQL query", <<>>)
        ELSE IF ~is_select_statement(parsed[1])
        THEN Verdict(FALSE, "Only SELECT statements are allowed", <<>>)
        ELSE IF ~validate_statement_structure(parsed[1])
        THEN Verdict(FALSE, "Query structure validation failed", <<>>)
        ELSE Verdict(TRUE, "Query is safe", <<>>)

\* A normalisation that trims but keeps the letter case
normalize_without_upper(sql_query) == str_strip(sql_query)

\* sql_query = sql_query.strip().upper()
normalize_query(sql_query) == str_upper(str_strip(sql_query))

\* A validator that accepts every text
validate_sql_accept_all(sql_query) == {Verdict(TRUE, "Query is safe", <<>>)}

\* validate_sql: the set of (is_safe, error_message) pairs a call can return.
\* The two blocklists are Python sets, so which of several hits is met first,
\* and named in the message, is not fixed; everything else is.
validate_sql(sql_query) ==
    LET normalised == normalize_query(sql_query)
        kw == keyword_hits(normalised)
        fn == function_hits(normalised)
        pt == pattern_hits(normalised)
    IN  IF kw # {}
        THEN {Verdict(FALSE, "Dangerous SQL keyword is not allowed", k) : k \in kw}
        ELSE IF fn # {}
        THEN {Verdict(FALSE, "Dangerous function is not allowed", f) : f \in fn}
        ELSE IF pt # {}
        THEN {Verdict(FALSE, "Potentially dangerous SQL pattern detected",
                      PATTERN_SOURCES[CHOOSE n \in pt : \A m \in pt : n <= m])}
        ELSE {validate_parsed(normalised)}

\* Whether validate_sql accepts (the same for every iteration order)
is_safe_sql(sql_query) == \E v \in validate_sql(sql_query) : v.is_safe

(***************************************************************************)
(* DatabaseManager.execute_query                                           *)
(***************************************************************************)
\* Python's None and "" where a message is expected
NoneMsg == Msg("None", <<>>)

EmptyMsg == Msg("", <<>>)

\* A plain text where a message is expected
Text(chars) == Msg("", chars)

\* Python's None where a list of rows is expected, and a list of rows
NoneRows == [is_none |-> TRUE, rows |-> <<>>]

RowList(rows) == [is_none |-> FALSE, rows |-> rows]

\* What the warehouse does with one call.  not_configured: the lookup
\* connections['warehouse'] raises; connect_failed: connection.cursor()
\* raises OperationalError; OperationalError / Exception: cursor.execute
\* raises; rows: cursor.description is set and fetchall() returns rows;
\* no_description: cursor.description is None.
BackendOutcome(kind, rows, msg) == [kind |-> kind, rows |-> rows, msg |-> msg]

\* The tuple execute_query returns, with what the call did to the warehouse:
\* sent, the texts given to cursor.execute, and conn, the connections obtained
ExecResult(success, results, error, sent, conn) ==
    [success |-> success, results |-> results, error |-> error,
     sent |-> sent, conn |-> conn]

\* A cursor text that is the validator's comparison copy
cursor_text_normalised(sql_query) == normalize_query(sql_query)

\* The text given to cursor.execute: the caller's sql_query (validate_sql
\* rebinds its own parameter, not the caller's variable)
cursor_text(sql_query) == sql_query

\* A warehouse call that reports success whatever the backend did
run_on_warehouse_swallow(sql_query, backend) ==
    ExecResult(TRUE, RowList(backend.rows), EmptyMsg, <<sql_query>>, 1)

\* After validation: the connection, the cursor and the fetch
run_on_warehouse(sql_query, backend) ==
    IF backend.kind = "not_configured"
    THEN ExecResult(FALSE, NoneRows, Msg("Unexpected error", backend.msg), <<>>, 0)
    ELSE IF backend.kind = "connect_failed"
    THEN ExecResult(FALSE, NoneRows, Msg("Database operation error", backend.msg), <<>>, 1)
    ELSE IF backend.kind = "OperationalError"
    THEN ExecResult(FALSE, NoneRows, Msg("Database operation error", backend.msg),
                    <<cursor_text(sql_query)>>, 1)
    ELSE IF backend.kind = "Exception"
    THEN ExecResult(FALSE, NoneRows, Msg("Unexpected error", backend.msg),
                    <<cursor_text(sql_query)>>, 1)
    ELSE IF backend.kind = "rows"
    THEN ExecResult(TRUE, RowList(backend.rows), EmptyMsg, <<cursor_text(sql_query)>>, 1)
    ELSE ExecResult(TRUE, RowList(<<>>), EmptyMsg, <<cursor_text(sql_query)>>, 1)

\* An execute_query that trusts its caller and skips the verdict
execute_query_unchecked(sql_query, verdict, backend) == run_on_warehouse(sql_query, backend)

\* execute_query(sql_query) for one verdict of validate_sql(sql_query) and
\* one outcome of the backend
execute_query(sql_query, verdict, backend) ==
    IF ~verdict.is_safe
    THEN ExecResult(FALSE, NoneRows, verdict.reason, <<>>, 0)
    ELSE run_on_warehouse(sql_query, backend)

(***************************************************************************)
(* QueryFormatter.format_results                                           *)
(***************************************************************************)
DEFAULT_MAX_ROWS == 100

\* A cell is <<type, value>>
convert_value(val) ==
    IF val[1] = "Decimal" THEN <<"float", val[2]>>
    ELSE IF val[1] \in {"date", "datetime"} THEN <<"str", val[2]>>
    ELSE val

\* None where format_results was not called
NoneFormatted ==
    [is_none |-> TRUE, data |-> <<>>, columns |-> <<>>, row_count |-> 0,
     truncated |-> FALSE, has_display_count |-> FALSE]

\* A formatter that never truncates
format_results_untruncated(results, max_rows) ==
    [is_none |-> FALSE, data |-> results,
     columns |-> IF results = <<>> THEN <<>>
                 ELSE [c \in 1..Len(results[1]) |-> results[1][c][1]],
     row_count |-> Len(results), truncated |-> FALSE, has_display_count |-> results # <<>>]

\* results: a list of rows; a row (a dict) is the sequence of its items
\* <<column, cell>> in insertion order
format_results(results, max_rows) ==
    IF results = <<>>
    THEN [is_none |-> FALSE, data |-> <<>>, columns |-> <<>>, row_count |-> 0,
          truncated |-> FALSE, has_display_count |-> FALSE]
    ELSE LET columns == [c \in 1..Len(results[1]) |-> results[1][c][1]]
             truncated == Len(results) > max_rows
             display_results == IF truncated THEN SubSeq(results, 1, max_rows) ELSE results
         IN  [is_none |-> FALSE,
              data |-> [n \in 1..Len(display_results) |->
                          [c \in 1..Len(display_results[n]) |->
                              <<display_results[n][c][1],
                                convert_value(display_results[n][c][2])>>]],
              columns |-> columns,
              row_count |-> Len(results),
              truncated |-> truncated,
              has_display_count |-> TRUE]

(***************************************************************************)
(* OpenAIService                                                           *)
(***************************************************************************)
Fence == <<Backtick, Backtick, Backtick>>

FenceSql == Fence \o <<"s", "q", "l">>

DropFirst(s, n) == SubSeq(s, n + 1, Len(s))

DropLast(s, n) == SubSeq(s, 1, Len(s) - n)

\* _clean_sql_query
clean_sql_query(sql_query) ==
    LET a == IF str_startswith(sql_query, FenceSql) THEN DropFirst(sql_query, Len(FenceSql))
             ELSE sql_query
        b == IF str_startswith(a, Fence) THEN DropFirst(a, Len(Fence)) ELSE a
        c == IF str_endswith(b, Fence) THEN DropLast(b, Len(Fence)) ELSE b
        d == str_strip(c)
    IN  IF ~str_endswith(d, <<";">>) THEN d \o <<";">> ELSE d

\* What the chat-completions call does.  raise: the call raises;
\* no_content: no choices, no message, or content None; ok: content is a
\* text, and total_tokens is the usage (0 stands for a missing usage too).
ApiResponse(kind, content, total_tokens) ==
    [kind |-> kind, content |-> content, total_tokens |-> total_tokens]

GenResult(success, sql_query, error, tokens_used) ==
    [success |-> success, sql_query |-> sql_query, error |-> error,
     tokens_used |-> tokens_used]

\* generate_sql, for one response of the API
generate_sql(response) ==
    IF response.kind = "raise"
    THEN GenResult(FALSE, <<>>, Msg("OpenAI API error", <<>>), 0)
    ELSE IF response.kind = "no_content"
    THEN GenResult(FALSE, <<>>,
                   Msg("OpenAI API returned an unexpected response (no message content)", <<>>), 0)
    ELSE GenResult(TRUE, clean_sql_query(str_strip(response.content)), EmptyMsg,
                   response.total_tokens)

\* A summary generator that hands the raw content back, unstripped, and an
\* error text when there is none
generate_results_summary_leaky(response) ==
    IF response.kind = "ok" THEN response.content
    ELSE <<"e", "r", "r", "o", "r">>

\* generate_results_summary, for one response of the API: "" when the call
\* raises, when there is no choice, and when content is None (None.strip()
\* raises inside the try)
generate_results_summary(response) ==
    IF response.kind = "ok" THEN str_strip(response.content) ELSE <<>>

\* The number of history messages _build_prompt renders
HISTORY_WINDOW == 5

\* An entry of chat_history: a dict with the given keys.  A text is a
\* sequence of strings, its pieces in order.
HistoryEntry(keys, role, content, sql_query, query_results) ==
    [keys |-> keys, role |-> role, content |-> content, sql_query |-> sql_query,
     query_results |-> query_results]

\* A Message of the session as _get_chat_history reads it: sql_query is ''
\* and query_results is None (both <<>> here) where the row has none
StoredMessage(role, content, sql_query, query_results) ==
    [role |-> role, content |-> content, sql_query |-> sql_query,
     query_results |-> query_results]

\* _get_chat_history: the rows in creation order; an assistant row hands on
\* its sql_query and query_results when they are truthy
get_chat_history(stored) ==
    [n \in 1..Len(stored) |->
        LET message == stored[n]
            assistant == message.role = "assistant"
        IN  HistoryEntry({"role", "content"}
                            \cup (IF assistant /\ message.sql_query # <<>>
                                  THEN {"sql_query"} ELSE {})
                            \cup (IF assistant /\ message.query_results # <<>>
                                  THEN {"query_results"} ELSE {}),
                         message.role, message.content, message.sql_query,
                         message.query_results)]

\* A slice that keeps the first entries
history_slice_first(chat_history) ==
    IF Len(chat_history) <= HISTORY_WINDOW THEN chat_history
    ELSE SubSeq(chat_history, 1, HISTORY_WINDOW)

\* chat_history[-5:]
history_slice(chat_history) ==
    IF Len(chat_history) <= HISTORY_WINDOW THEN chat_history
    ELSE SubSeq(chat_history, Len(chat_history) - HISTORY_WINDOW + 1, Len(chat_history))

\* f"{role}: {content}", content extended by the SQL and the results of an
\* assistant entry that has them
history_line(msg) ==
    LET assistant == msg.role = "assistant"
    IN  <<IF msg.role = "user" THEN "User" ELSE "Assistant", ": ">> \o msg.content
        \o (IF assistant /\ "sql_query" \in msg.keys
            THEN <<" [SQL: ">> \o msg.sql_query \o <<"]">> ELSE <<>>)
        \o (IF assistant /\ "query_results" \in msg.keys
            THEN <<" [Results: ">> \o msg.query_results \o <<"]">> ELSE <<>>)

\* The lines of one table of schema_info
table_lines(item) ==
    << <<"\nTable: ", item[1]>> >>
    \o [c \in 1..Len(item[2]) |->
           LET column == item[2][c]
           IN  <<"  - ", column.column_name, ": ", column.data_type, " ",
                 IF column.is_nullable THEN "NULL" ELSE "NOT NULL">>
               \o (IF column.column_default # ""
                   THEN <<" DEFAULT ", column.column_default>> ELSE <<>>)]

RECURSIVE schema_lines(_)
schema_lines(schema_info) ==
    IF schema_info = <<>> THEN <<>>
    ELSE table_lines(Head(schema_info)) \o schema_lines(Tail(schema_info))

\* _build_prompt: prompt_parts, the lines that "\n".join makes the prompt of.
\* current_year stands for datetime.now().year.
build_prompt(user_query, chat_history, schema_info) ==
    (IF schema_info # <<>>
     THEN << <<"DATABASE SCHEMA:">> >> \o schema_lines(schema_info) \o << <<>> >>
     ELSE <<>>)
    \o (IF chat_history # <<>>
        THEN << <<"CHAT HISTORY:">> >>
             \o [k \in 1..Len(history_slice(chat_history)) |->
                    history_line(history_slice(chat_history)[k])]
             \o << <<>> >>
        ELSE <<>>)
    \o << <<"CURRENT YEAR: ", "current_year">>,
          <<"USER QUERY: ">> \o user_query,
          <<"\nGenerate a SQL query to answer this question:">> >>

(***************************************************************************)
(* Inputs: the texts the model draws from                                  *)
(***************************************************************************)
\* The largest number of fragments a text given to the validator is built of
MaxFrags == 2

\* The largest number of rows the warehouse returns
MaxRows == 1

\* The largest number of fragments in a generator text
MaxGenFrags == 3

\* The largest number of messages in the session when a request arrives
MaxHistory == 6

\* The largest timeout, in seconds, given to execute_query in a direct call
MaxTimeout == 2

\* The largest number of rows given to format_results in a direct call, and
\* the largest max_rows
MaxFormatRows == 3

MaxCap == 3

F_select == <<"s", "e", "l", "e", "c", "t", " ", "a", " ", "f", "r", "o", "m", " ", "t">>

F_select_semi ==
    <<"s", "e", "l", "e", "c", "t", " ", "a", " ", "f", "r", "o", "m", " ", "t", ";">>

F_semi == <<";">>

F_space == <<" ">>

F_psel ==
    <<"(", "s", "e", "l", "e", "c", "t", " ", "a", " ", "f", "r", "o", "m", " ", "t",
      ")">>

F_kw == <<"D", "e", "l", "e", "t", "e">>

F_drop == <<" ", "D", "r", "o", "p">>

F_sub == <<"(", "d", "e", "l", "e", "t", "e", " ", "f", "r", "o", "m", " ", "u", ")">>

F_word == <<"s", "_">>

F_literal == <<" ", "w", "h", "e", "r", "e", " ", "b", "=", "'", ";", "'">>

F_literal_semi == <<" ", "w", "h", "e", "r", "e", " ", "b", "=", "'", ";", "'", ";">>

F_dashes == <<"-", "-">>

F_line_comment == <<" ", "-", "-", " ", "x">>

F_comment == <<"/", "*", "x", "*", "/">>

F_comment_ml == <<"/", "*", "\n", "*", "/">>

F_union_select ==
    <<" ", "u", "n", "i", "o", "n", " ", "s", "e", "l", "e", "c", "t", " ", "a", " ",
      "f", "r", "o", "m", " ", "t">>

F_union_all ==
    <<" ", "U", "n", "i", "o", "n", " ", "A", "l", "l", " ", "s", "e", "l", "e", "c",
      "t", " ", "a", " ", "f", "r", "o", "m", " ", "t">>

F_or_1 == <<" ", "o", "r", " ", "1", "=", "1">>

F_or_true == <<" ", "O", "r", " ", "T", "r", "u", "e">>

F_and_1 == <<" ", "a", "n", "d", " ", "1", " ", "=", " ", "1">>

F_eval == <<"e", "v", "a", "l">>

Fragments ==
    {F_select, F_select_semi, F_semi, F_space, F_psel,
     F_kw, F_drop, F_sub, F_word, F_literal,
     F_literal_semi, F_dashes, F_line_comment, F_comment, F_comment_ml,
     F_union_select, F_union_all, F_or_1, F_or_true, F_and_1,
     F_eval}

RECURSIVE Concat(_)
Concat(parts) == IF parts = <<>> THEN <<>> ELSE Head(parts) \o Concat(Tail(parts))

\* The texts given to validate_sql and execute_query in direct calls
GateTexts ==
    {Concat(parts) : parts \in UNION {[1..n -> Fragments] : n \in 0..MaxFrags}}

\* request.body's message
T_question == <<"h", "o", "w", " ", "m", "a", "n", "y">>

MessageBodies == {F_space, T_question}

\* The generator's texts: fences, whitespace, a SELECT and a semicolon in any
\* order
GenFragments == {FenceSql, Fence, <<"\n">>, F_space, F_select, F_semi}

GenTexts == {Concat(parts) : parts \in UNION {[1..n -> GenFragments] : n \in 0..MaxGenFrags}}

GenResponses ==
    {ApiResponse("raise", <<>>, 0), ApiResponse("no_content", <<>>, 0)}
    \cup {ApiResponse("ok", t, k) : t \in GenTexts, k \in {0, 7}}

\* The messages of a session: two questions, an answer with SQL and results,
\* and an error answer
T_followup == <<"w", "h", "y">>

T_results == <<"{'row_count': 1}">>

T_sorry == <<"Sorry, I encountered an error: ", "timeout">>

StoredMessages ==
    {StoredMessage("user", T_question, <<>>, <<>>),
     StoredMessage("user", T_followup, <<>>, <<>>),
     StoredMessage("assistant", <<"8", "4", "2">>, F_select_semi, T_results),
     StoredMessage("assistant", T_sorry, <<>>, <<>>)}

Histories == UNION {[1..n -> StoredMessages] : n \in 0..MaxHistory}

\* The generator's replies: a fenced SELECT, a DELETE, two stacked SELECTs
G_fenced == FenceSql \o <<"\n">> \o F_select \o <<"\n">> \o Fence

G_delete == F_kw \o F_space \o F_word

G_stacked == F_select_semi \o F_space \o F_select

SqlApiResponses ==
    {ApiResponse("raise", <<>>, 0), ApiResponse("no_content", <<>>, 0),
     ApiResponse("ok", G_fenced, 7), ApiResponse("ok", G_delete, 0),
     ApiResponse("ok", G_stacked, 7)}

\* 'Message cannot be empty'
T_empty ==
    <<"M", "e", "s", "s", "a", "g", "e", " ", "c", "a", "n", "n", "o", "t", " ", "b", "e",
      " ", "e", "m", "p", "t", "y">>

T_summary == <<"8", "4", "2", " ", "h", "o", "m", "e", " ", "r", "u", "n", "s">>

SummaryApiResponses ==
    {ApiResponse("raise", <<>>, 0), ApiResponse("no_content", <<>>, 0),
     ApiResponse("ok", T_summary, 9)}

T_timeout == <<"t", "i", "m", "e", "o", "u", "t">>

T_warehouse == <<"w", "a", "r", "e", "h", "o", "u", "s", "e">>

\* str(e) of a failed query on the application database
T_locked == <<"l", "o", "c", "k", "e", "d">>

\* Row n of a result set: an int and a Decimal column
BackendRow(n) == << <<"id", <<"int", n>>>>, <<"total", <<"Decimal", n>>>> >>

Backends ==
    {BackendOutcome("not_configured", <<>>, T_warehouse),
     BackendOutcome("connect_failed", <<>>, T_timeout),
     BackendOutcome("OperationalError", <<>>, T_timeout),
     BackendOutcome("Exception", <<>>, T_timeout),
     BackendOutcome("no_description", <<>>, <<>>)}
    \cup {BackendOutcome("rows", [n \in 1..k |-> BackendRow(n)], <<>>) : k \in 0..MaxRows}

(***************************************************************************)
(* SchemaManager.  A YAML value is a record: a mapping carries the set of   *)
(* its keys; the catalog (schema_info) is the list of its items             *)
(* <<table_name, columns>> in insertion order                               *)
(***************************************************************************)
\* mapping.get(key, default)
Get(mapping, key, default) == IF key \in mapping.keys THEN mapping[key] ELSE default

\* A column entry of the document: a mapping with the given keys, or another
\* YAML value (a scalar)
YamlColumn(keys, name, type) ==
    [is_mapping |-> TRUE, keys |-> keys, name |-> name, type |-> type,
     nullable |-> TRUE, default |-> "", description |-> ""]

YamlScalar == [is_mapping |-> FALSE, keys |-> {}]

\* A table entry: columns_kind is the YAML type of the value under 'columns'
YamlTable(keys, name, columns_kind, columns) ==
    [is_mapping |-> TRUE, keys |-> keys, name |-> name,
     columns_kind |-> columns_kind, columns |-> columns]

\* The document yaml.safe_load returns, or parses = FALSE where it raises
\* YAMLError.  kind is the YAML type of the top level.
YamlDocument(parses, kind, keys, tables_kind, tables) ==
    [parses |-> parses, kind |-> kind, keys |-> keys,
     tables_kind |-> tables_kind, tables |-> tables]

\* The result of a loop of the transformation: raised, an exception left it
Built(raised, value) == [raised |-> raised, value |-> value]

\* for column in columns: schema_info[table_name].append({...})
RECURSIVE build_columns(_, _)
build_columns(columns, default_type) ==
    IF columns = <<>> THEN Built(FALSE, <<>>)
    ELSE IF ~Head(columns).is_mapping THEN Built(TRUE, <<>>)
    ELSE LET column == Head(columns)
             rest == build_columns(Tail(columns), default_type)
         IN  Built(rest.raised,
                   << [column_name |-> Get(column, "name", ""),
                       data_type |-> Get(column, "type", default_type),
                       is_nullable |-> Get(column, "nullable", TRUE),
                       column_default |-> Get(column, "default", ""),
                       description |-> Get(column, "description", "")] >> \o rest.value)

\* schema_info[table_name] = columns: a new key is appended, an old one keeps
\* its place
DictSet(schema_info, table_name, columns) ==
    IF \E i \in 1..Len(schema_info) : schema_info[i][1] = table_name
    THEN [i \in 1..Len(schema_info) |->
             IF schema_info[i][1] = table_name THEN <<table_name, columns>>
             ELSE schema_info[i]]
    ELSE Append(schema_info, <<table_name, columns>>)

\* for table in tables (list format) and for table_name, columns in
\* tables.items() (dict format, the name being the key)
RECURSIVE build_tables(_, _, _)
build_tables(tables, tables_kind, schema_info) ==
    IF tables = <<>> THEN Built(FALSE, schema_info)
    ELSE LET table == Head(tables)
             is_list == tables_kind = "list"
         IN  IF is_list /\ ~table.is_mapping THEN Built(TRUE, schema_info)
             ELSE LET table_name == IF is_list THEN Get(table, "name", "") ELSE table.name
                      has_columns == ~is_list \/ "columns" \in table.keys
                      columns == IF has_columns THEN table.columns ELSE <<>>
                      iterable == ~has_columns \/ table.columns_kind \in {"list", "str"}
                      cols == build_columns(columns, IF is_list THEN "varchar(255)" ELSE "")
                  IN  IF ~iterable \/ cols.raised THEN Built(TRUE, schema_info)
                      ELSE build_tables(Tail(tables), tables_kind,
                                        DictSet(schema_info, table_name, cols.value))

\* yaml.safe_load and the transformation to schema_info
build_schema_info(doc) ==
    IF ~doc.parses \/ doc.kind = "none" THEN Built(TRUE, <<>>)
    ELSE IF doc.kind # "mapping" \/ "tables" \notin doc.keys THEN Built(FALSE, <<>>)
    ELSE IF doc.tables_kind \notin {"list", "dict"} THEN Built(FALSE, <<>>)
    ELSE build_tables(doc.tables, doc.tables_kind, <<>>)

\* None where a catalog is expected, and a catalog
NoneCatalog == [is_none |-> TRUE, tables |-> <<>>]

Catalog(tables) == [is_none |-> FALSE, tables |-> tables]

\* None where a modification time is expected, and a modification time
NoneTime == [is_none |-> TRUE, value |-> 0]

Time(t) == [is_none |-> FALSE, value |-> t]

\* The latest modification time of the source
MaxMtime == 3

\* The documents the source holds: two well-formed ones in list format, one in
\* dict format, and the defective ones
Col_id == YamlColumn({"name", "type"}, "id", "int")

Col_wins == YamlColumn({"name", "type"}, "wins", "int")

D_teams ==
    YamlDocument(TRUE, "mapping", {"tables"}, "list",
                 <<YamlTable({"name", "columns"}, "teams", "list", <<Col_id>>)>>)

D_teams_wins ==
    YamlDocument(TRUE, "mapping", {"tables"}, "list",
                 <<YamlTable({"name", "columns"}, "teams", "list", <<Col_id, Col_wins>>)>>)

D_dict ==
    YamlDocument(TRUE, "mapping", {"tables"}, "dict",
                 <<YamlTable({}, "games", "list", <<Col_id>>)>>)

D_unparseable == YamlDocument(FALSE, "none", {}, "none", <<>>)

D_not_mapping == YamlDocument(TRUE, "list", {}, "none", <<>>)

D_no_tables == YamlDocument(TRUE, "mapping", {"version"}, "none", <<>>)

D_columns_not_list ==
    YamlDocument(TRUE, "mapping", {"tables"}, "list",
                 <<YamlTable({"name", "columns"}, "teams", "str", <<YamlScalar, YamlScalar>>)>>)

D_column_no_name ==
    YamlDocument(TRUE, "mapping", {"tables"}, "list",
                 <<YamlTable({"name", "columns"}, "teams", "list",
                             <<Col_id, YamlColumn({"type"}, "", "int")>>)>>)

Documents ==
    {D_teams, D_teams_wins, D_dict, D_unparseable, D_not_mapping, D_no_tables,
     D_columns_not_list, D_column_no_name}

\* The schema file: whether it exists, its st_mtime and its content
Source(exists, st_mtime, doc) == [exists |-> exists, st_mtime |-> st_mtime, doc |-> doc]

\* What load_schema_from_yaml did: the catalog it returned, what it logged,
\* and the exception that left it (none: both handlers return {})
Loaded(catalog, logged) == [catalog |-> catalog, logged |-> logged, raised |-> "none"]

\* The thread of the manager, outside load_schema_from_yaml.  current_modified
\* is the local of the call in progress; the rest describes the latest call:
\* previous and marker, the cache and the marker when it began; found, the
\* source at the check; read, the source when it was opened; returned, the
\* result
IdleLoader ==
    [pc |-> "idle", current_modified |-> 0, previous |-> NoneCatalog, marker |-> NoneTime,
     found |-> Source(FALSE, 0, D_unparseable), opened |-> FALSE,
     read |-> Source(FALSE, 0, D_unparseable),
     returned |-> Loaded(NoneCatalog, "none"), reload_schema |-> "none"]

\* A manager after __init__ beside its source; built_from is the st_mtime of
\* the source version the cache was built from
FreshSchema(source) ==
    [source |-> source, schema_cache |-> NoneCatalog, last_modified |-> NoneTime,
     built_from |-> 0, loader |-> IdleLoader]

(***************************************************************************)
(* State                                                                   *)
(***************************************************************************)
VARIABLES
    call,          \* a direct call of validate_sql or execute_query
    worker,        \* per request (one thread each): the locals of send_message
    messages,      \* the Message table, in creation order
    queryLog,      \* the QueryLog table, in creation order
    cursorLog,     \* the texts given to the warehouse cursor, in order
    connCount,     \* the warehouse connections obtained
    runCount,      \* the pipeline runs started
    schema         \* the schema file, a SchemaManager and its thread

vars == <<call, worker, messages, queryLog, cursorLog, connCount, runCount, schema>>

Workers == {"w1", "w2"}

NoVerdict == [is_safe |-> FALSE, reason |-> NoneMsg]

NoExec == ExecResult(FALSE, NoneRows, NoneMsg, <<>>, 0)

NoGen == GenResult(FALSE, <<>>, NoneMsg, 0)

\* response_data: {} or the dict process_user_message builds
EmptyResponseData ==
    [is_empty |-> TRUE, sql_query |-> <<>>, results |-> NoneFormatted, error |-> NoneMsg,
     tokens_used |-> 0, execution_success |-> FALSE, summary |-> <<>>]

\* How often the run called each stage (kept for the properties only)
NoCalls == [validate_sql |-> 0, execute_query |-> 0, format_results |-> 0,
            generate_results_summary |-> 0]

\* A row of Message; run is the pipeline run that wrote it (0: none)
MessageRow(run, role, content, sql_query, query_results, error_message, tokens_used) ==
    [run |-> run, role |-> role, content |-> content, sql_query |-> sql_query,
     query_results |-> query_results, error_message |-> error_message,
     tokens_used |-> tokens_used]

\* A content f"{prefix}{body}"
Content(prefix, body) == [prefix |-> prefix, body |-> body]

\* A row of QueryLog
QueryLogRow(run, original_query, generated_sql, is_safe, execution_success, error_message) ==
    [run |-> run, original_query |-> original_query, generated_sql |-> generated_sql,
     is_safe |-> is_safe, execution_success |-> execution_success,
     error_message |-> error_message]

\* No outcome of the warehouse drawn yet
NoBackend == BackendOutcome("none", <<>>, <<>>)

\* faults: the stages of the run in which something failed; escaped: an
\* exception left process_user_message; backend: the warehouse's outcome
\* (all three kept for the properties only)
IdleWorker ==
    [pc |-> "idle", run |-> 0, user_message |-> <<>>, chat_history |-> <<>>,
     gen |-> NoGen, verdict |-> NoVerdict, exec |-> NoExec,
     formatted_results |-> NoneFormatted, summary |-> <<>>,
     success |-> FALSE, error_msg |-> NoneMsg, response_data |-> EmptyResponseData,
     calls |-> NoCalls, http_success |-> FALSE,
     faults |-> {}, escaped |-> FALSE, backend |-> NoBackend]

\* A direct call: the function, its arguments (sql for the validator and the
\* executor; results and max_rows for the formatter) and what it returned;
\* backend is the warehouse's outcome the executor met.  For the prompt:
\* stored, the Message rows of the session; user_query; chat_history and
\* prompt_parts, the locals of generate_sql; mine, the place of the request's
\* own user message in stored, and others, the messages other requests stored
\* after it (both kept for the properties only).  For the generator:
\* response, what the API does; gen, what generate_sql returned; cleaned,
\* what _clean_sql_query returned for response.content
NoCall ==
    [fn |-> "none", sql |-> <<>>, verdict |-> NoVerdict, result |-> NoExec,
     backend |-> NoBackend, results |-> <<>>, max_rows |-> 0, formatted |-> NoneFormatted,
     timeout |-> 0, elapsed |-> 0,
     stored |-> <<>>, user_query |-> <<>>, chat_history |-> <<>>, prompt_parts |-> <<>>,
     mine |-> 0, others |-> 0,
     response |-> ApiResponse("none", <<>>, 0), gen |-> NoGen, cleaned |-> <<>>,
     DatabaseSchema |-> <<>>, before |-> <<>>, schema_info |-> <<>>, force |-> FALSE,
     valid |-> [called |-> FALSE, is_valid |-> FALSE, error_message |-> <<>>],
     summary |-> [called |-> FALSE, file_exists |-> FALSE, table_count |-> 0,
                  total_columns |-> 0, tables |-> <<>>],
     session |-> [user |-> "", title |-> <<>>, is_active |-> FALSE, updated_at |-> 0,
                  messages |-> <<>>],
     session_before |-> [user |-> "", title |-> <<>>, is_active |-> FALSE,
                         updated_at |-> 0, messages |-> <<>>],
     request |-> [user |-> "", is_staff |-> FALSE, method |-> ""], now |-> 0]

PipelineInit ==
    /\ worker = [w \in Workers |-> IdleWorker]
    /\ messages = <<>>
    /\ queryLog = <<>>
    /\ cursorLog = <<>>
    /\ connCount = 0
    /\ runCount = 0

\* The schema file as deployed
DeployedSource == Source(TRUE, 1, D_teams)

Init ==
    /\ call = NoCall
    /\ PipelineInit
    /\ schema = FreshSchema(DeployedSource)

\* A direct call: the text is drawn, nothing has run yet
InitGate ==
    /\ call \in {[NoCall EXCEPT !.sql = t] : t \in GateTexts}
    /\ PipelineInit
    /\ schema = FreshSchema(DeployedSource)

(***************************************************************************)
(* Direct calls                                                            *)
(***************************************************************************)
\* SQLSecurityValidator.validate_sql(call.sql)
CallValidateSql ==
    /\ call.fn = "none"
    /\ \E v \in validate_sql(call.sql) :
           call' = [call EXCEPT !.fn = "validate_sql", !.verdict = v]
    /\ UNCHANGED <<worker, messages, queryLog, cursorLog, connCount, runCount, schema>>

\* DatabaseManager.execute_query(call.sql)
CallExecuteQuery ==
    /\ call.fn = "none"
    /\ \E v \in validate_sql(call.sql), backend \in Backends :
           LET res == execute_query(call.sql, v, backend)
           IN  /\ call' = [call EXCEPT !.fn = "execute_query", !.verdict = v,
                                        !.result = res,
                                        !.backend = IF v.is_safe THEN backend ELSE NoBackend]
               /\ cursorLog' = cursorLog \o res.sent
               /\ connCount' = connCount + res.conn
    /\ UNCHANGED <<worker, messages, queryLog, runCount, schema>>

NextGate == CallValidateSql \/ CallExecuteQuery

\* The result lists given to format_results: rows with the ids 1..MaxFormatRows
\* in any order, with repetitions
FormatInputs ==
    UNION {{[k \in 1..n |-> BackendRow(ids[k])] : ids \in [1..n -> 1..MaxFormatRows]} :
              n \in 0..MaxFormatRows}

\* A direct call of format_results: the list and the cap are drawn
InitFormat ==
    /\ call \in {[NoCall EXCEPT !.results = r, !.max_rows = m] :
                    r \in FormatInputs, m \in 0..MaxCap}
    /\ PipelineInit
    /\ schema = FreshSchema(DeployedSource)

\* QueryFormatter.format_results(call.results, call.max_rows)
CallFormatResults ==
    /\ call.fn = "none"
    /\ call' = [call EXCEPT !.fn = "format_results",
                            !.formatted = format_results(call.results, call.max_rows)]
    /\ UNCHANGED <<worker, messages, queryLog, cursorLog, connCount, runCount, schema>>

NextFormat == CallFormatResults

SpecFormat == InitFormat /\ [][NextFormat]_vars

\* A warehouse that never answers cursor.execute
SilentBackend == BackendOutcome("never_answers", <<>>, <<>>)

\* The outcomes in which cursor.execute is reached and the thread waits for
\* the warehouse
WaitingBackends ==
    {b \in Backends : b.kind \notin {"not_configured", "connect_failed"}} \cup {SilentBackend}

\* The seconds the model lets pass while a call waits
MaxElapsed == MaxTimeout + 1

\* The texts given to execute_query in the timed calls
TimedTexts == {F_select, F_select \o F_literal, G_delete}

\* A direct call execute_query(call.sql, call.timeout), followed step by step
InitExec ==
    /\ call \in {[NoCall EXCEPT !.sql = t, !.timeout = s] :
                    t \in TimedTexts, s \in 1..MaxTimeout}
    /\ PipelineInit
    /\ schema = FreshSchema(DeployedSource)

\* execute_query up to cursor.execute: validation, the connection, the
\* cursor.  A rejected query and a failed connection return at once; otherwise
\* the statement is sent and the thread waits in cursor.execute.  The
\* parameter timeout is read nowhere.
BeginExecuteQuery ==
    /\ call.fn = "none"
    /\ \E v \in validate_sql(call.sql), backend \in Backends \cup {SilentBackend} :
           IF v.is_safe /\ backend \in WaitingBackends
           THEN /\ call' = [call EXCEPT !.fn = "cursor.execute", !.verdict = v,
                                         !.backend = backend]
                /\ cursorLog' = cursorLog \o <<cursor_text(call.sql)>>
                /\ connCount' = connCount + 1
           ELSE LET res == execute_query(call.sql, v, backend)
                IN  /\ call' = [call EXCEPT !.fn = "execute_query", !.verdict = v,
                                             !.result = res,
                                             !.backend = IF v.is_safe THEN backend
                                                         ELSE NoBackend]
                    /\ cursorLog' = cursorLog \o res.sent
                    /\ connCount' = connCount + res.conn
    /\ UNCHANGED <<worker, messages, queryLog, runCount, schema>>

\* A second passes while the thread waits in cursor.execute
Tick ==
    /\ call.fn = "cursor.execute"
    /\ call.elapsed < MaxElapsed
    /\ call' = [call EXCEPT !.elapsed = call.elapsed + 1]
    /\ UNCHANGED <<worker, messages, queryLog, cursorLog, connCount, runCount, schema>>

\* The warehouse answers: cursor.execute returns or raises, and execute_query
\* returns its tuple
BackendAnswers ==
    /\ call.fn = "cursor.execute"
    /\ call.backend # SilentBackend
    /\ call' = [call EXCEPT !.fn = "execute_query",
                            !.result = run_on_warehouse(call.sql, call.backend)]
    /\ UNCHANGED <<worker, messages, queryLog, cursorLog, connCount, runCount, schema>>

NextExec == BeginExecuteQuery \/ Tick \/ BackendAnswers

SpecExec == InitExec /\ [][NextExec]_vars

(***************************************************************************)
(* generate_sql and _clean_sql_query in direct calls                       *)
(***************************************************************************)
InitGen ==
    /\ call \in {[NoCall EXCEPT !.response = r] : r \in GenResponses}
    /\ PipelineInit
    /\ schema = FreshSchema(DeployedSource)

\* generate_sql(user_query, chat_history, schema_info), the API answering
\* with call.response
CallGenerateSql ==
    /\ call.fn = "none"
    /\ call' = [call EXCEPT !.fn = "generate_sql", !.gen = generate_sql(call.response)]
    /\ UNCHANGED <<worker, messages, queryLog, cursorLog, connCount, runCount, schema>>

\* _clean_sql_query(call.response.content)
CallCleanSqlQuery ==
    /\ call.fn = "none"
    /\ call.response.kind = "ok"
    /\ call' = [call EXCEPT !.fn = "_clean_sql_query",
                            !.cleaned = clean_sql_query(call.response.content)]
    /\ UNCHANGED <<worker, messages, queryLog, cursorLog, connCount, runCount, schema>>

NextGen == CallGenerateSql \/ CallCleanSqlQuery

SpecGen == InitGen /\ [][NextGen]_vars

(***************************************************************************)
(* The prompt of generate_sql, in a direct call and in a request           *)
(***************************************************************************)
\* A session with its messages, and the question of the request
InitPrompt ==
    /\ call \in {[NoCall EXCEPT !.stored = h, !.user_query = T_question] : h \in Histories}
    /\ PipelineInit
    /\ schema = FreshSchema(DeployedSource)

\* The history read and the prompt built from it, as generate_sql does
PromptOf(c) ==
    LET chat_history == get_chat_history(c.stored)
    IN  [c EXCEPT !.chat_history = chat_history,
                  !.prompt_parts = build_prompt(c.user_query, chat_history,
                                       build_schema_info(schema.source.doc).value)]

\* _build_prompt(user_query, chat_history, schema_info) on the history of the
\* session as it is
CallBuildPrompt ==
    /\ call.fn = "none"
    /\ call' = [PromptOf(call) EXCEPT !.fn = "_build_prompt"]
    /\ UNCHANGED <<worker, messages, queryLog, cursorLog, connCount, runCount, schema>>

\* send_message stores the user's message
StoreUserMessage ==
    /\ call.fn = "none"
    /\ call' = [call EXCEPT !.fn = "send_message",
                            !.stored = Append(@, StoredMessage("user", call.user_query,
                                                               <<>>, <<>>)),
                            !.mine = Len(call.stored) + 1]
    /\ UNCHANGED <<worker, messages, queryLog, cursorLog, connCount, runCount, schema>>

\* Another request of the same session stores its user message
OtherRequestStores ==
    /\ call.fn = "send_message"
    /\ Len(call.stored) <= MaxHistory + 1
    /\ call' = [call EXCEPT !.stored = Append(@, StoredMessage("user", T_followup,
                                                               <<>>, <<>>)),
                            !.others = @ + 1]
    /\ UNCHANGED <<worker, messages, queryLog, cursorLog, connCount, runCount, schema>>

\* process_user_message up to the prompt of generate_sql
ProcessUserMessage ==
    /\ call.fn = "send_message"
    /\ call' = [PromptOf(call) EXCEPT !.fn = "process_user_message"]
    /\ UNCHANGED <<worker, messages, queryLog, cursorLog, connCount, runCount, schema>>

NextPrompt ==
    CallBuildPrompt \/ StoreUserMessage \/ OtherRequestStores \/ ProcessUserMessage

SpecPrompt == InitPrompt /\ [][NextPrompt]_vars

(***************************************************************************)
(* SchemaManager.load_schema_from_yaml, beside a source that other         *)
(* processes modify                                                        *)
(***************************************************************************)
\* A manager after __init__; the source is missing or holds any document
InitSchema ==
    /\ call = NoCall
    /\ PipelineInit
    /\ schema \in {FreshSchema(Source(TRUE, 1, d)) : d \in Documents}
                  \cup {FreshSchema(Source(FALSE, 1, D_unparseable))}

\* load_schema_from_yaml up to the test of the modification time: exists(),
\* stat() and the comparison with the marker
CheckSource ==
    /\ schema.loader.pc = "idle"
    /\ LET began == [IdleLoader EXCEPT !.previous = schema.schema_cache,
                                       !.marker = schema.last_modified,
                                       !.found = schema.source]
           current_modified == schema.source.st_mtime
       IN  schema' = [schema EXCEPT !.loader =
               IF ~schema.source.exists
               THEN [began EXCEPT !.returned = Loaded(Catalog(<<>>), "warning")]
               ELSE IF /\ ~schema.schema_cache.is_none
                       /\ ~schema.last_modified.is_none
                       /\ current_modified <= schema.last_modified.value
               THEN [began EXCEPT !.returned = Loaded(schema.schema_cache, "none")]
               ELSE [began EXCEPT !.pc = "open", !.current_modified = current_modified]]
    /\ UNCHANGED <<call, worker, messages, queryLog, cursorLog, connCount, runCount>>

\* The rest of load_schema_from_yaml: open and parse the file, build
\* schema_info, store it with the marker and return it; any exception is
\* logged and {} is returned
ReadSource ==
    /\ schema.loader.pc = "open"
    /\ LET built == IF schema.source.exists THEN build_schema_info(schema.source.doc)
                    ELSE Built(TRUE, <<>>)
           ended == [schema.loader EXCEPT !.pc = "idle", !.opened = TRUE,
                                          !.read = schema.source]
       IN  IF built.raised
           THEN schema' = [schema EXCEPT !.loader =
                               [ended EXCEPT !.returned = Loaded(Catalog(<<>>), "error")]]
           ELSE schema' = [schema EXCEPT
                               !.schema_cache = Catalog(built.value),
                               !.last_modified = Time(schema.loader.current_modified),
                               !.built_from = schema.source.st_mtime,
                               !.loader = [ended EXCEPT !.returned =
                                              Loaded(Catalog(built.value), "info")]]
    /\ UNCHANGED <<call, worker, messages, queryLog, cursorLog, connCount, runCount>>

\* Another process writes the schema file
ModifySource ==
    /\ schema.source.st_mtime < MaxMtime
    /\ \E d \in Documents :
           schema' = [schema EXCEPT !.source = Source(TRUE, schema.source.st_mtime + 1, d)]
    /\ UNCHANGED <<call, worker, messages, queryLog, cursorLog, connCount, runCount>>

\* Another process removes the schema file
RemoveSource ==
    /\ schema.source.exists
    /\ schema' = [schema EXCEPT
                      !.source = Source(FALSE, schema.source.st_mtime, D_unparseable)]
    /\ UNCHANGED <<call, worker, messages, queryLog, cursorLog, connCount, runCount>>

\* load_schema_from_yaml run without interruption on the manager s: the
\* manager afterwards, loader.returned being the result
load_schema_from_yaml(s) ==
    LET began == [IdleLoader EXCEPT !.previous = s.schema_cache,
                                    !.marker = s.last_modified,
                                    !.found = s.source]
        current_modified == s.source.st_mtime
    IN  IF ~s.source.exists
        THEN [s EXCEPT !.loader = [began EXCEPT !.returned = Loaded(Catalog(<<>>), "warning")]]
        ELSE IF /\ ~s.schema_cache.is_none
                /\ ~s.last_modified.is_none
                /\ current_modified <= s.last_modified.value
        THEN [s EXCEPT !.loader = [began EXCEPT !.returned = Loaded(s.schema_cache, "none")]]
        ELSE LET built == build_schema_info(s.source.doc)
                 ended == [began EXCEPT !.current_modified = current_modified,
                                        !.opened = TRUE, !.read = s.source]
             IN  IF built.raised
                 THEN [s EXCEPT !.loader =
                           [ended EXCEPT !.returned = Loaded(Catalog(<<>>), "error")]]
                 ELSE [s EXCEPT !.schema_cache = Catalog(built.value),
                                !.last_modified = Time(current_modified),
                                !.built_from = current_modified,
                                !.loader = [ended EXCEPT !.returned =
                                               Loaded(Catalog(built.value), "info")]]

\* reload_schema: the cache and the marker are set to None, then
\* load_schema_from_yaml runs; True is returned unless the load raised
ReloadSchema ==
    /\ schema.loader.pc = "idle"
    /\ LET after == load_schema_from_yaml([schema EXCEPT !.schema_cache = NoneCatalog,
                                                         !.last_modified = NoneTime])
       IN  schema' = [after EXCEPT !.loader.reload_schema =
                          IF after.loader.returned.raised = "none" THEN "True" ELSE "False"]
    /\ UNCHANGED <<call, worker, messages, queryLog, cursorLog, connCount, runCount>>

NextSchema == CheckSource \/ ReadSource \/ ModifySource \/ RemoveSource \/ ReloadSchema

SpecSchema == InitSchema /\ [][NextSchema]_vars

SpecGate == InitGate /\ [][NextGate]_vars

(***************************************************************************)
(* send_message, one thread per request; Workers are the requests.  The    *)
(* steps are the calls of the view and of process_user_message, in program *)
(* order; a request at "done" has returned its JsonResponse.               *)
(***************************************************************************)
Others == <<call, queryLog, cursorLog, connCount, schema>>

\* The request arrives: the message is stripped; an empty one is answered at
\* once, any other is stored as the user's Message and the pipeline starts.
\* A failing INSERT of the user's Message raises into the view's except clause.
SendMessage(w) ==
    /\ worker[w].pc = "idle"
    /\ \E body \in MessageBodies :
           LET user_message == str_strip(body)
           IN  IF user_message = <<>>
               THEN /\ worker' = [worker EXCEPT ![w].pc = "done",
                                                ![w].error_msg = Text(T_empty)]
                    /\ UNCHANGED <<messages, runCount>>
               ELSE \/ /\ messages' = Append(messages,
                               MessageRow(runCount + 1, "user",
                                          Content("", Text(user_message)),
                                          NoneMsg, NoneFormatted, NoneMsg, 0))
                       /\ runCount' = runCount + 1
                       /\ worker' = [worker EXCEPT ![w].pc = "history",
                                                   ![w].run = runCount + 1,
                                                   ![w].user_message = user_message]
                    \/ /\ worker' = [worker EXCEPT ![w].pc = "view_except",
                                                   ![w].user_message = user_message,
                                                   ![w].error_msg = Text(T_locked)]
                       /\ UNCHANGED <<messages, runCount>>
    /\ UNCHANGED Others

\* An except clause that lets the exception go on to the caller
process_user_message_reraise(e) ==
    [escaped |-> TRUE, success |-> FALSE, error_msg |-> Text(e),
     response_data |-> EmptyResponseData]

\* except Exception as e: return False, f"Error processing message: {str(e)}", {}
process_user_message_except(e) ==
    [escaped |-> FALSE, success |-> FALSE, error_msg |-> Msg("Error processing message", e),
     response_data |-> EmptyResponseData]

\* The locals of w after stage raised e inside the try of process_user_message
AfterException(w, stage, e) ==
    LET r == process_user_message_except(e)
    IN  [worker[w] EXCEPT
            !.pc = IF r.escaped THEN "view_except" ELSE "respond_error",
            !.escaped = r.escaped,
            !.success = r.success,
            !.error_msg = r.error_msg,
            !.response_data = r.response_data,
            !.faults = @ \cup {stage}]

\* _get_chat_history: the session's messages in creation order; a failing
\* query raises into the except clause of process_user_message
GetChatHistory(w) ==
    /\ worker[w].pc = "history"
    /\ \/ worker' = [worker EXCEPT
                        ![w].pc = "schema",
                        ![w].chat_history =
                            [n \in 1..Len(messages) |->
                                [role |-> messages[n].role, content |-> messages[n].content]]]
       \/ worker' = [worker EXCEPT ![w] = AfterException(w, "history", T_locked)]
    /\ UNCHANGED <<messages, runCount>>
    /\ UNCHANGED Others

\* get_schema_for_prompt: load_schema_from_yaml catches every exception
GetSchemaForPrompt(w) ==
    /\ worker[w].pc = "schema"
    /\ worker' = [worker EXCEPT ![w].pc = "generate"]
    /\ UNCHANGED <<messages, runCount>>
    /\ UNCHANGED Others

\* A pipeline that goes on to execution whatever generate_sql returned
continue_after_generate_sql(gen) == "execute"

\* if not sql_success: return False, sql_error, {}
next_after_generate_sql(gen) == IF gen.success THEN "execute" ELSE "respond_error"

\* generate_sql, and the return on "not sql_success"
GenerateSql(w) ==
    /\ worker[w].pc = "generate"
    /\ \E response \in SqlApiResponses :
           LET gen == generate_sql(response)
           IN  worker' = [worker EXCEPT
                   ![w].gen = gen,
                   ![w].pc = next_after_generate_sql(gen),
                   ![w].success = FALSE,
                   ![w].error_msg = IF gen.success THEN NoneMsg ELSE gen.error,
                   ![w].faults = IF response.kind = "ok" THEN @ ELSE @ \cup {"generation"}]
    /\ UNCHANGED <<messages, runCount>>
    /\ UNCHANGED Others

\* DatabaseManager.execute_query(sql_query)
ExecuteQuery(w) ==
    /\ worker[w].pc = "execute"
    /\ \E v \in validate_sql(worker[w].gen.sql_query), backend \in Backends :
           LET res == execute_query(worker[w].gen.sql_query, v, backend)
           IN  /\ worker' = [worker EXCEPT
                       ![w].pc = "format",
                       ![w].verdict = v,
                       ![w].exec = res,
                       ![w].backend = IF v.is_safe THEN backend ELSE NoBackend,
                       ![w].faults = IF v.is_safe /\ ~res.success
                                     THEN @ \cup {"execution"} ELSE @,
                       ![w].calls.validate_sql = @ + 1,
                       ![w].calls.execute_query = @ + 1]
               /\ cursorLog' = cursorLog \o res.sent
               /\ connCount' = connCount + res.conn
    /\ UNCHANGED <<call, queryLog, messages, runCount, schema>>

\* A pipeline that asks for a summary of every run
always_summarise(db_success, formatted_results) == TRUE

\* if db_success and formatted_results and formatted_results.get('data')
needs_summary(db_success, formatted_results) ==
    /\ db_success
    /\ ~formatted_results.is_none
    /\ formatted_results.data # <<>>

\* formatted_results = format_results(results) if db_success else None, and
\* the test that decides whether a summary is asked for
FormatResults(w) ==
    /\ worker[w].pc = "format"
    /\ LET db_success == worker[w].exec.success
           formatted_results ==
               IF db_success
               THEN format_results(worker[w].exec.results.rows, DEFAULT_MAX_ROWS)
               ELSE NoneFormatted
       IN  worker' = [worker EXCEPT
               ![w].formatted_results = formatted_results,
               ![w].summary = <<>>,
               ![w].calls.format_results = IF db_success THEN @ + 1 ELSE @,
               ![w].pc = IF needs_summary(db_success, formatted_results)
                         THEN "summary" ELSE "build"]
    /\ UNCHANGED <<messages, runCount>>
    /\ UNCHANGED Others

\* generate_results_summary
GenerateResultsSummary(w) ==
    /\ worker[w].pc = "summary"
    /\ \E response \in SummaryApiResponses :
           worker' = [worker EXCEPT
               ![w].summary = generate_results_summary(response),
               ![w].faults = IF response.kind = "ok" THEN @ ELSE @ \cup {"summary"},
               ![w].calls.generate_results_summary = @ + 1,
               ![w].pc = "build"]
    /\ UNCHANGED <<messages, runCount>>
    /\ UNCHANGED Others

\* response_data, and return True, "", response_data
BuildResponse(w) ==
    /\ worker[w].pc = "build"
    /\ LET db_success == worker[w].exec.success
       IN  worker' = [worker EXCEPT
               ![w].response_data =
                   [is_empty |-> FALSE,
                    sql_query |-> worker[w].gen.sql_query,
                    results |-> worker[w].formatted_results,
                    error |-> IF ~db_success THEN worker[w].exec.error ELSE NoneMsg,
                    tokens_used |-> worker[w].gen.tokens_used,
                    execution_success |-> db_success,
                    summary |-> worker[w].summary],
               ![w].success = TRUE,
               ![w].error_msg = EmptyMsg,
               ![w].pc = "create_message"]
    /\ UNCHANGED <<messages, runCount>>
    /\ UNCHANGED Others

\* send_message on "not success": the error Message and the failure response
RespondError(w) ==
    /\ worker[w].pc = "respond_error"
    /\ messages' = Append(messages,
           MessageRow(worker[w].run, "assistant",
                      Content("Sorry, I encountered an error: ", worker[w].error_msg),
                      NoneMsg, NoneFormatted, worker[w].error_msg, 0))
    /\ worker' = [worker EXCEPT ![w].pc = "done", ![w].http_success = FALSE]
    /\ UNCHANGED runCount
    /\ UNCHANGED Others

\* send_message, except Exception: the failure response, no Message
ViewExcept(w) ==
    /\ worker[w].pc = "view_except"
    /\ worker' = [worker EXCEPT ![w].pc = "done", ![w].http_success = FALSE]
    /\ UNCHANGED <<messages, runCount>>
    /\ UNCHANGED Others

\* _format_assistant_response
format_assistant_response(response_data) ==
    IF response_data.error \notin {NoneMsg, EmptyMsg}
    THEN Content("I encountered an error while processing your query: ", response_data.error)
    ELSE IF response_data.summary # <<>>
    THEN Content("", Text(response_data.summary))
    ELSE Content("", EmptyMsg)

\* create_chat_response, first statement: the assistant's Message
CreateAssistantMessage(w) ==
    /\ worker[w].pc = "create_message"
    /\ LET response_data == worker[w].response_data
       IN  messages' = Append(messages,
               MessageRow(worker[w].run, "assistant",
                          format_assistant_response(response_data),
                          Text(response_data.sql_query), response_data.results,
                          response_data.error, response_data.tokens_used))
    /\ worker' = [worker EXCEPT ![w].pc = "create_log"]
    /\ UNCHANGED runCount
    /\ UNCHANGED Others

\* create_chat_response, second statement: the QueryLog row; then the
\* success response
CreateQueryLog(w) ==
    /\ worker[w].pc = "create_log"
    /\ LET response_data == worker[w].response_data
       IN  queryLog' = Append(queryLog,
               QueryLogRow(worker[w].run, worker[w].user_message, response_data.sql_query,
                           TRUE, response_data.execution_success, response_data.error))
    /\ worker' = [worker EXCEPT ![w].pc = "done", ![w].http_success = TRUE]
    /\ UNCHANGED <<call, cursorLog, connCount, messages, runCount, schema>>

Next ==
    \E w \in Workers :
        \/ SendMessage(w)
        \/ GetChatHistory(w)
        \/ GetSchemaForPrompt(w)
        \/ GenerateSql(w)
        \/ ExecuteQuery(w)
        \/ FormatResults(w)
        \/ GenerateResultsSummary(w)
        \/ BuildResponse(w)
        \/ RespondError(w)
        \/ ViewExcept(w)
        \/ CreateAssistantMessage(w)
        \/ CreateQueryLog(w)

Spec == Init /\ [][Next]_vars

(***************************************************************************)
(* Properties of the direct calls (SpecGate)                               *)
(***************************************************************************)
\* The call has returned
Validated == call.fn \in {"validate_sql", "execute_query"}

\* C1: a call of execute_query gives a text to the warehouse cursor only if
\* validate_sql accepted that call's text, and the text given is the caller's
\* own text, character for character; when the validator rejects, no
\* connection is obtained, nothing is executed and the call returns
\* (False, None, reason).
C1_ExecuteOnlyValidatedOriginal ==
    call.fn = "execute_query" =>
        /\ Len(cursorLog) <= 1
        /\ \A n \in 1..Len(cursorLog) : cursorLog[n] = call.sql /\ call.verdict.is_safe
        /\ ~call.verdict.is_safe =>
               /\ cursorLog = <<>>
               /\ connCount = 0
               /\ call.result.success = FALSE
               /\ call.result.results = NoneRows
               /\ call.result.error = call.verdict.reason

\* An accepted text that differs from its comparison copy has been executed
C1_Witness ==
    /\ call.fn = "execute_query"
    /\ call.verdict.is_safe
    /\ cursorLog = <<call.sql>>
    /\ call.sql # str_upper(str_strip(call.sql))

\* The keywords the blocklist names one word each
BlocklistedWords ==
    {KW_DROP, KW_TRUNCATE, KW_DELETE, KW_UPDATE, KW_INSERT, KW_ALTER, KW_CREATE,
     KW_GRANT, KW_REVOKE, KW_EXECUTE, KW_EXEC, KW_MERGE, KW_UPSERT, KW_REPLACE,
     KW_RENAME, KW_MODIFY}

\* word stands in text as a whole word, in any letter case
ContainsWholeWord(text, word) ==
    \E i \in 1..Len(text) :
        LET j == i + Len(word) - 1
        IN  /\ j <= Len(text)
            /\ str_upper(SubSeq(text, i, j)) = word
            /\ ~WordAt(text, i - 1)
            /\ ~WordAt(text, j + 1)

\* C2: a text that contains one of the blocklisted keywords as a whole word,
\* in any letter case, is rejected by validate_sql, whatever surrounds it.
C2_WholeWordKeywordRejected ==
    (Validated /\ \E word \in BlocklistedWords : ContainsWholeWord(call.sql, word))
        => ~call.verdict.is_safe

\* A SELECT followed by a mixed-case DROP has been rejected
C2_Witness ==
    /\ call.fn = "validate_sql"
    /\ str_startswith(call.sql, F_select)
    /\ ContainsWholeWord(call.sql, KW_DROP)
    /\ ~ContainsWholeWord(str_upper(call.sql), KW_DELETE)
    /\ call.sql # str_upper(call.sql)
    /\ ~call.verdict.is_safe

\* The tokens of a text that are not white space
RECURSIVE SolidTokens(_)
SolidTokens(toks) ==
    IF toks = <<>> THEN <<>>
    ELSE IF IsWhitespaceTok(Head(toks)) THEN SolidTokens(Tail(toks))
    ELSE <<Head(toks)>> \o SolidTokens(Tail(toks))

IsSeparator(tok) == tok.ttype = "Punctuation" /\ tok.value = <<";">>

IsSelectTok(tok) == tok.ttype = "DML" /\ str_upper(tok.value) = W_SELECT

\* text is SELECT ... ; SELECT ... with an optional last separator
TwoSeparatedSelects(text) ==
    LET toks == SolidTokens(tokenize(str_strip(text), 1))
    IN  /\ toks # <<>>
        /\ IsSelectTok(toks[1])
        /\ \E n \in 2..(Len(toks) - 1) :
               /\ IsSeparator(toks[n])
               /\ IsSelectTok(toks[n + 1])
               /\ \A m \in 1..Len(toks) :
                      IsSeparator(toks[m]) => m = n \/ m = Len(toks)
               /\ \A m \in 1..Len(toks) : IsSelectTok(toks[m]) => m = 1 \/ m = n + 1

\* text is one SELECT, with the only ";" of the text as its last character
OneSelectOneSeparator(text) ==
    LET stripped == str_strip(text)
        toks == SolidTokens(tokenize(stripped, 1))
    IN  /\ toks # <<>>
        /\ IsSelectTok(toks[1])
        /\ \A m \in 2..Len(toks) : toks[m].ttype \in {"Name", "Wildcard", "Punctuation"}
        /\ \A m \in 1..Len(toks) : toks[m].ttype = "Punctuation" => m = Len(toks)
        /\ IsSeparator(toks[Len(toks)])
        /\ str_count(stripped, ";") = 1

\* Nothing of the three blocklists is in the text
FreeOfBlocklists(text) ==
    /\ keyword_hits(str_upper(str_strip(text))) = {}
    /\ function_hits(str_upper(str_strip(text))) = {}
    /\ pattern_hits(str_upper(str_strip(text))) = {}

\* C3: validate_sql rejects every text made of two separator-delimited SELECT
\* statements, and accepts a single SELECT that ends in exactly one ";".
C3_StackedSelectsRejected ==
    Validated =>
        /\ TwoSeparatedSelects(call.sql) => ~call.verdict.is_safe
        /\ (OneSelectOneSeparator(call.sql) /\ FreeOfBlocklists(call.sql))
               => call.verdict.is_safe

\* text is one well-formed SELECT: it starts with SELECT, has no other
\* data-manipulation word, no comment, no unreadable character, balanced
\* parentheses, and outside its string literals at most one ";", the last
\* token
ValidSingleSelect(text) ==
    LET toks == SolidTokens(tokenize(str_strip(text), 1))
    IN  /\ toks # <<>>
        /\ IsSelectTok(toks[1])
        /\ \A m \in 2..Len(toks) :
               toks[m].ttype \notin {"DML", "Error", "Comment.Single", "Comment.Multiline"}
        /\ \A m \in 1..Len(toks) : IsSeparator(toks[m]) => m = Len(toks)
        /\ \A m \in 1..Len(toks) :
               toks[m].ttype = "Punctuation" => toks[m].value \in {<<";">>, <<",">>}

\* C4: every syntactically valid single SELECT that contains no blocklisted
\* keyword, function name or injection pattern is accepted by validate_sql;
\* only the separators outside string literals count.
C4_CleanSelectAccepted ==
    (Validated /\ ValidSingleSelect(call.sql) /\ FreeOfBlocklists(call.sql))
        => call.verdict.is_safe

\* The statements of the text as parsed
ParsedStatements(text) == sqlparse_parse(str_upper(str_strip(text)))

\* A data-manipulation token other than SELECT, at any depth of a statement
HasNonSelectDml(statement) ==
    \E j \in 1..Len(statement.tokens) :
        statement.tokens[j].ttype = "DML" /\ ~IsSelectTok(statement.tokens[j])

\* The first data-manipulation token of the statement is not SELECT
LeadingDmlNotSelect(statement) ==
    \E j \in 1..Len(statement.tokens) :
        /\ statement.tokens[j].ttype = "DML"
        /\ ~IsSelectTok(statement.tokens[j])
        /\ \A m \in 1..(j - 1) : statement.tokens[m].ttype # "DML"

\* C5: validate_sql rejects every statement whose parse tree holds, at any
\* nesting depth, a data-manipulation token other than SELECT, also when the
\* outermost statement is a SELECT; and every statement whose leading
\* data-manipulation token is not SELECT.
C5_NonSelectDmlRejected ==
    Validated =>
        \A n \in 1..Len(ParsedStatements(call.sql)) :
            LET statement == ParsedStatements(call.sql)[n]
            IN  (HasNonSelectDml(statement) \/ LeadingDmlNotSelect(statement))
                    => ~call.verdict.is_safe

\* A SELECT with a DELETE inside parentheses has been rejected
C5_Witness ==
    /\ call.fn = "validate_sql"
    /\ ParsedStatements(call.sql) # <<>>
    /\ LET statement == ParsedStatements(call.sql)[1]
       IN  /\ is_select_statement(statement)
           /\ \E j \in 1..Len(statement.tokens) :
                  /\ statement.depth[j] > 0
                  /\ statement.tokens[j].ttype = "DML"
                  /\ ~IsSelectTok(statement.tokens[j])
    /\ ~call.verdict.is_safe

\* A line comment is the last thing of the text
HasTrailingLineComment(text) ==
    LET toks == SolidTokens(tokenize(str_strip(text), 1))
    IN  toks # <<>> /\ toks[Len(toks)].ttype = "Comment.Single"

\* The text holds /* ... */, on one line or over several
HasBlockComment(text) ==
    \E i \in 1..Len(text), j \in 1..Len(text) :
        /\ j >= i + 2
        /\ StartsWithAt(text, i, <<"/", "*">>)
        /\ StartsWithAt(text, j, <<"*", "/">>)

\* words[1] white space words[2] ... stands in the text, in any letter case
RECURSIVE WordsAt(_, _, _)
WordsAt(text, i, words) ==
    IF words = <<>> THEN TRUE
    ELSE /\ StartsWithAt(str_upper(text), i, Head(words))
         /\ IF Tail(words) = <<>> THEN TRUE
            ELSE \E j \in (i + Len(Head(words)) + 1)..Len(text) :
                     /\ \A m \in (i + Len(Head(words)))..(j - 1) : IsSpace(text[m])
                     /\ WordsAt(text, j, Tail(words))

HasPhrase(text, words) == \E i \in 1..Len(text) : WordsAt(text, i, words)

\* UNION SELECT, UNION ALL SELECT, OR 1=1, OR TRUE, AND 1=1
InjectionPhrases ==
    {<<W_UNION, W_SELECT>>, <<W_UNION, W_ALL, W_SELECT>>,
     <<W_OR, <<"1", "=", "1">>>>, <<W_OR, W_TRUE>>, <<W_AND, <<"1", "=", "1">>>>}

\* C6: validate_sql rejects every text that holds a line comment trailing the
\* statement, a block comment (on one line or over several), UNION [ALL]
\* SELECT, or one of OR 1=1, OR TRUE, AND 1=1, in any letter case.
C6_InjectionPatternsRejected ==
    (/\ Validated
     /\ \/ HasTrailingLineComment(call.sql)
        \/ HasBlockComment(call.sql)
        \/ \E words \in InjectionPhrases : HasPhrase(call.sql, words))
        => ~call.verdict.is_safe

(***************************************************************************)
(* Properties of the pipeline (Spec)                                       *)
(***************************************************************************)
\* The QueryLog rows of a run
LogRowsOf(run) == {n \in 1..Len(queryLog) : queryLog[n].run = run}

\* The request of w is past execute_query and the validator rejected its SQL
GateRejected(w) ==
    /\ worker[w].calls.validate_sql > 0
    /\ ~worker[w].verdict.is_safe

\* C7: when the validator rejects the generated SQL during a pipeline run,
\* nothing is executed on the warehouse, results are neither formatted nor
\* summarised, and the validator's reason is, unchanged, the error of the
\* pipeline result and the error_message of the audit record.
C7_RejectionSkipsExecution ==
    \A w \in Workers :
        GateRejected(w) =>
            /\ worker[w].exec.sent = <<>>
            /\ worker[w].exec.conn = 0
            /\ worker[w].calls.format_results = 0
            /\ worker[w].calls.generate_results_summary = 0
            /\ worker[w].formatted_results = NoneFormatted
            /\ worker[w].summary = <<>>
            /\ worker[w].pc \in {"create_message", "create_log", "done"}
                   => worker[w].response_data.error = worker[w].verdict.reason
            /\ \A n \in LogRowsOf(worker[w].run) :
                   queryLog[n].error_message = worker[w].verdict.reason
            /\ worker[w].pc = "done" => LogRowsOf(worker[w].run) # {}

\* A run whose SQL was rejected has finished and left its audit record
C7_Witness ==
    \E w \in Workers :
        /\ GateRejected(w)
        /\ worker[w].pc = "done"
        /\ \E n \in LogRowsOf(worker[w].run) :
               queryLog[n].error_message[1] = "Dangerous SQL keyword is not allowed"

\* C8: the audit record of a run has is_safe = False exactly when the
\* validator rejected the run's SQL.
C8_AuditMarksRejection ==
    \A w \in Workers :
        worker[w].calls.validate_sql > 0 =>
            \A n \in LogRowsOf(worker[w].run) :
                queryLog[n].is_safe = worker[w].verdict.is_safe

\* generate_sql has returned failure for the request of w
GenerationFailed(w) ==
    /\ worker[w].pc \in {"respond_error", "done"}
    /\ worker[w].gen # NoGen
    /\ ~worker[w].gen.success

\* C9: when SQL generation fails the run stops there: validator, executor,
\* formatter and summary generator are not called for that turn, zero tokens
\* are reported, and the run ends in failure.
C9_GenerationFailureStops ==
    \A w \in Workers :
        GenerationFailed(w) =>
            /\ worker[w].calls = NoCalls
            /\ worker[w].exec = NoExec
            /\ worker[w].gen.tokens_used = 0
            /\ worker[w].gen.sql_query = <<>>
            /\ worker[w].success = FALSE
            /\ worker[w].error_msg = worker[w].gen.error
            /\ worker[w].response_data = EmptyResponseData
            /\ worker[w].pc = "done" =>
                   /\ worker[w].http_success = FALSE
                   /\ \E n \in 1..Len(messages) :
                          /\ messages[n].run = worker[w].run
                          /\ messages[n].role = "assistant"
                          /\ messages[n].error_message = worker[w].gen.error
                          /\ messages[n].tokens_used = 0

\* A run whose generation failed has finished
C9_Witness ==
    \E w \in Workers :
        /\ GenerationFailed(w)
        /\ worker[w].pc = "done"
        /\ worker[w].gen.error[1] = "OpenAI API error"

\* C10: every run that send_message starts for a non-empty message leaves,
\* whatever its outcome, exactly one audit record, with the question, the
\* generated SQL, the execution success flag and the error text if any.
C10_OneAuditRecordPerRun ==
    \A w \in Workers :
        (worker[w].pc = "done" /\ worker[w].run > 0 /\ worker[w].gen # NoGen) =>
            /\ Cardinality(LogRowsOf(worker[w].run)) = 1
            /\ \A n \in LogRowsOf(worker[w].run) :
                   /\ queryLog[n].original_query = worker[w].user_message
                   /\ queryLog[n].generated_sql = worker[w].gen.sql_query
                   /\ queryLog[n].execution_success = worker[w].exec.success

\* process_user_message has returned to send_message
Returned(w) ==
    worker[w].pc \in {"respond_error", "create_message", "create_log"}
        \/ (worker[w].pc = "done" /\ worker[w].run > 0)

\* C11: no exception leaves process_user_message: whatever fails in history
\* loading, schema loading, generation, validation, execution, formatting or
\* summarising, the call returns a (success, error_message, response_data)
\* tuple.
C11_NoExceptionEscapes ==
    \A w \in Workers :
        /\ ~worker[w].escaped
        /\ worker[w].run > 0 => worker[w].pc # "view_except"
        /\ (Returned(w) /\ worker[w].faults # {}) =>
               \/ /\ worker[w].success = FALSE
                  /\ worker[w].error_msg \notin {NoneMsg, EmptyMsg}
                  /\ worker[w].response_data = EmptyResponseData
               \/ /\ worker[w].success = TRUE
                  /\ worker[w].error_msg = EmptyMsg
                  /\ ~worker[w].response_data.is_empty

\* A run whose history query raised has returned its tuple and finished
C11_Witness ==
    \E w \in Workers :
        /\ worker[w].pc = "done"
        /\ "history" \in worker[w].faults
        /\ worker[w].error_msg = Msg("Error processing message", T_locked)

\* The validator accepted the SQL of w's run and the backend raised while the
\* cursor was opened or the statement executed
BackendRaised(w) ==
    /\ worker[w].calls.execute_query > 0
    /\ worker[w].verdict.is_safe
    /\ worker[w].backend.kind \in {"connect_failed", "OperationalError", "Exception"}

\* C12: when the validator accepts the SQL and the backend raises during
\* execution, execute_query returns (False, None, message with the backend's
\* message), and the pipeline result records the generated SQL and that error
\* with execution_success = False, no results and no summary.
C12_BackendErrorRecorded ==
    \A w \in Workers :
        BackendRaised(w) =>
            /\ worker[w].exec.success = FALSE
            /\ worker[w].exec.results = NoneRows
            /\ worker[w].exec.error[1] \in {"Database operation error", "Unexpected error"}
            /\ worker[w].exec.error[2] = worker[w].backend.msg
            /\ worker[w].formatted_results = NoneFormatted
            /\ worker[w].summary = <<>>
            /\ worker[w].calls.generate_results_summary = 0
            /\ worker[w].pc \in {"create_message", "create_log", "done"} =>
                   /\ worker[w].success = TRUE
                   /\ worker[w].response_data.sql_query = worker[w].gen.sql_query
                   /\ worker[w].response_data.error = worker[w].exec.error
                   /\ worker[w].response_data.execution_success = FALSE
                   /\ worker[w].response_data.results = NoneFormatted
                   /\ worker[w].response_data.summary = <<>>
            /\ \A n \in LogRowsOf(worker[w].run) :
                   /\ queryLog[n].generated_sql = worker[w].gen.sql_query
                   /\ queryLog[n].error_message = worker[w].exec.error
                   /\ queryLog[n].execution_success = FALSE

\* A run whose accepted SQL met an OperationalError has left its audit record
C12_Witness ==
    \E w \in Workers :
        /\ BackendRaised(w)
        /\ worker[w].backend.kind = "OperationalError"
        /\ worker[w].pc = "done"
        /\ \E n \in LogRowsOf(worker[w].run) :
               queryLog[n].error_message = Msg("Database operation error", T_timeout)

\* The run of w is past the test that decides on the summary
PastSummaryTest(w) ==
    /\ worker[w].calls.execute_query > 0
    /\ worker[w].pc \in {"build", "create_message", "create_log", "done"}

\* The warehouse answered the run of w with at least one row
RowsReturned(w) ==
    /\ worker[w].verdict.is_safe
    /\ worker[w].backend.kind = "rows"
    /\ worker[w].backend.rows # <<>>

\* C13: in a run the summary generator is called if and only if execution
\* succeeded and the formatted result has at least one row; a successful
\* execution with zero rows, or without result columns, ends with an empty
\* summary and no summary request.
C13_SummaryOnlyForRows ==
    \A w \in Workers :
        /\ worker[w].calls.generate_results_summary <= 1
        /\ worker[w].pc = "summary" => RowsReturned(w)
        /\ PastSummaryTest(w) =>
               /\ (worker[w].calls.generate_results_summary = 1) <=> RowsReturned(w)
               /\ ~RowsReturned(w) => worker[w].summary = <<>>
        /\ (worker[w].pc = "done" /\ worker[w].exec.success /\ ~RowsReturned(w)) =>
               /\ worker[w].response_data.summary = <<>>
               /\ worker[w].response_data.execution_success
               /\ worker[w].response_data.results.data = <<>>

\* One run has finished a successful query of zero rows without a summary
\* request, another a query with a row and one summary request
C13_Witness ==
    \E w, v \in Workers :
        /\ worker[w].pc = "done"
        /\ worker[w].exec.success
        /\ worker[w].backend.kind \in {"rows", "no_description"}
        /\ worker[w].exec.results.rows = <<>>
        /\ worker[w].calls.generate_results_summary = 0
        /\ worker[v].pc = "done"
        /\ RowsReturned(v)
        /\ worker[v].calls.generate_results_summary = 1
        /\ worker[v].summary = T_summary

\* C14: a failure of the summary generation (the call raises, or the
\* response has no content) does not fail the run: the summary is the empty
\* string and the pipeline result keeps execution_success = True, the
\* formatted results and error = None.
C14_SummaryFailureDegrades ==
    \A w \in Workers :
        "summary" \in worker[w].faults =>
            /\ worker[w].summary = <<>>
            /\ worker[w].pc \in {"build", "create_message", "create_log", "done"}
            /\ worker[w].pc # "build" =>
                   /\ worker[w].success = TRUE
                   /\ worker[w].response_data.execution_success = TRUE
                   /\ worker[w].response_data.results = worker[w].formatted_results
                   /\ worker[w].response_data.results.data # <<>>
                   /\ worker[w].response_data.error = NoneMsg
                   /\ worker[w].response_data.summary = <<>>
            /\ worker[w].pc = "done" =>
                   /\ worker[w].http_success = TRUE
                   /\ \E n \in LogRowsOf(worker[w].run) :
                          /\ queryLog[n].execution_success = TRUE
                          /\ queryLog[n].error_message = NoneMsg

\* A run whose summary request failed has finished successfully
C14_Witness ==
    \E w \in Workers :
        /\ "summary" \in worker[w].faults
        /\ worker[w].pc = "done"
        /\ worker[w].http_success = TRUE
        /\ worker[w].response_data.results.row_count > 0

(***************************************************************************)
(* Properties of format_results (SpecFormat)                               *)
(***************************************************************************)
Min(a, b) == IF a <= b THEN a ELSE b

\* C15: for a list of n rows and a cap max_rows >= 0, format_results returns
\* as data the first min(n, max_rows) rows in the backend's order (same
\* columns, same values), row_count = n, and truncated = True if and only if
\* n > max_rows.
C15_TruncationKeepsPrefix ==
    call.fn = "format_results" =>
        LET n == Len(call.results)
            data == call.formatted.data
        IN  /\ Len(data) = Min(n, call.max_rows)
            /\ \A k \in 1..Len(data) :
                   /\ Len(data[k]) = Len(call.results[k])
                   /\ \A c \in 1..Len(data[k]) :
                          /\ data[k][c][1] = call.results[k][c][1]
                          /\ data[k][c][2][2] = call.results[k][c][2][2]
            /\ call.formatted.row_count = n
            /\ call.formatted.truncated <=> (n > call.max_rows)

\* A list longer than the cap, with its rows not in ascending order, has been
\* formatted and truncated
C15_Witness ==
    /\ call.fn = "format_results"
    /\ call.max_rows = 2
    /\ Len(call.results) = 3
    /\ call.results[1][1][2][2] > call.results[2][1][2][2]
    /\ call.formatted.truncated
    /\ Len(call.formatted.data) = 2

(***************************************************************************)
(* Properties of execute_query's waiting and of a missing configuration    *)
(***************************************************************************)
\* C16: execute_query(sql, timeout) is bounded by its timeout: when the
\* warehouse never answers an accepted query, the call does not wait in
\* cursor.execute longer than timeout seconds.
C16_ExecuteBoundedByTimeout ==
    (call.fn = "cursor.execute" /\ call.backend = SilentBackend) =>
        call.elapsed <= call.timeout

\* C17: when the 'warehouse' database is not configured, execute_query does
\* not return the ordinary execution failure (False, None, message).
C17_MissingConfigurationIsFatal ==
    (call.fn = "execute_query" /\ call.backend.kind = "not_configured") =>
        ~(/\ call.result.success = FALSE
          /\ call.result.results = NoneRows
          /\ call.result.error # NoneMsg)

(***************************************************************************)
(* Properties of the schema catalog (SpecSchema)                           *)
(***************************************************************************)
\* A call of load_schema_from_yaml has returned
LoadReturned ==
    /\ schema.loader.pc = "idle"
    /\ ~schema.loader.returned.catalog.is_none

\* The call that returned began with a cached catalog
HadSnapshot == LoadReturned /\ ~schema.loader.previous.is_none

\* C18: after a successful load, load_schema_from_yaml re-reads the source if
\* and only if the source's modification time is strictly greater than the
\* stored marker, and otherwise returns the cached catalog unchanged; between
\* calls, the stored marker equals the modification time of the source
\* version the cached catalog was built from.
C18_ReloadOnlyWhenMarkerAdvances ==
    /\ HadSnapshot =>
           /\ schema.loader.opened <=>
                  /\ schema.loader.found.exists
                  /\ schema.loader.found.st_mtime > schema.loader.marker.value
           /\ ~schema.loader.opened =>
                  /\ schema.loader.returned.catalog = schema.loader.previous
                  /\ schema.schema_cache = schema.loader.previous
    /\ (schema.loader.pc = "idle" /\ ~schema.schema_cache.is_none) =>
           schema.last_modified = Time(schema.built_from)

\* The first structural defect of a document that parses
FirstDefect(doc) ==
    IF doc.kind # "mapping" THEN "not a mapping"
    ELSE IF "tables" \notin doc.keys THEN "no tables key"
    ELSE IF \E i \in 1..Len(doc.tables) : doc.tables[i].columns_kind # "list"
    THEN "columns is not a list"
    ELSE IF \E i \in 1..Len(doc.tables) : \E j \in 1..Len(doc.tables[i].columns) :
                "name" \notin doc.tables[i].columns[j].keys
    THEN "column without name"
    ELSE "none"

\* The call that returned read a document that parses and has a defect
ReadDefective ==
    /\ LoadReturned
    /\ schema.loader.opened
    /\ schema.loader.read.exists
    /\ schema.loader.read.doc.parses
    /\ FirstDefect(schema.loader.read.doc) # "none"

\* C19: loading a structurally defective source fails with a validation
\* error naming the first defect, and returns no catalog.
C19_DefectiveSourceFails ==
    ReadDefective =>
        /\ schema.loader.returned.raised = FirstDefect(schema.loader.read.doc)
        /\ schema.loader.returned.catalog.is_none

\* The complete catalogs the call that returned may hand out: the one cached
\* when it began and the one built from the source version it read
CompleteSnapshots ==
    {schema.loader.previous}
    \cup {Catalog(build_schema_info(schema.loader.read.doc).value) :
             x \in {y \in {1} : /\ schema.loader.opened
                                /\ schema.loader.read.exists
                                /\ ~build_schema_info(schema.loader.read.doc).raised}}

\* C20: whatever the source did during and between the calls, the catalog a
\* call returns after a successful load is the complete snapshot loaded
\* before or the complete snapshot built from the new source version.
C20_CompleteSnapshotOnly ==
    HadSnapshot => schema.loader.returned.catalog \in CompleteSnapshots

(***************************************************************************)
(* Properties of the prompt (SpecPrompt)                                   *)
(***************************************************************************)
\* The place of the line CHAT HISTORY: in the prompt (0: none)
HistoryHeader ==
    IF \E i \in 1..Len(call.prompt_parts) : call.prompt_parts[i] = <<"CHAT HISTORY:">>
    THEN CHOOSE i \in 1..Len(call.prompt_parts) : call.prompt_parts[i] = <<"CHAT HISTORY:">>
    ELSE 0

\* The lines between CHAT HISTORY: and the empty line that ends the block
PromptHistoryLines ==
    IF HistoryHeader = 0 THEN <<>>
    ELSE LET end == CHOOSE j \in (HistoryHeader + 1)..Len(call.prompt_parts) :
                        /\ call.prompt_parts[j] = <<>>
                        /\ \A i \in (HistoryHeader + 1)..(j - 1) : call.prompt_parts[i] # <<>>
         IN  SubSeq(call.prompt_parts, HistoryHeader + 1, end - 1)

PromptBuilt == call.fn \in {"_build_prompt", "process_user_message"}

RequestPrompted == call.fn = "process_user_message"

\* C25: the history read by process_user_message contains the request's own
\* user message, which send_message stored before; the prompt carries the
\* question as the last CHAT HISTORY line and as USER QUERY, and at most 4
\* earlier turns come before it.
C25_QuestionIsLastHistoryLine ==
    RequestPrompted =>
        LET lines == PromptHistoryLines
        IN  /\ call.mine \in 1..Len(call.chat_history)
            /\ call.chat_history[call.mine].role = "user"
            /\ call.chat_history[call.mine].content = call.user_query
            /\ call.mine = Len(call.chat_history)
            /\ lines # <<>>
            /\ lines[Len(lines)] = <<"User", ": ">> \o call.user_query
            /\ Len(lines) - 1 <= 4
            /\ \E i \in 1..Len(call.prompt_parts) :
                   call.prompt_parts[i] = <<"USER QUERY: ">> \o call.user_query

(***************************************************************************)
(* Properties of the generator (SpecGen)                                   *)
(***************************************************************************)
\* The response carries no usable text: the call raised, there is no content,
\* or the content is empty or whitespace only
NoUsableText(response) ==
    \/ response.kind # "ok"
    \/ \A i \in 1..Len(response.content) : IsSpace(response.content[i])

\* C22: generate_sql returns failure with empty SQL and 0 tokens whenever
\* the generator call raises or its response carries no usable text, and on
\* success the SQL is the normalised generator text.
C22_NoUsableTextFails ==
    call.fn = "generate_sql" =>
        IF NoUsableText(call.response)
        THEN /\ ~call.gen.success
             /\ call.gen.sql_query = <<>>
             /\ call.gen.tokens_used = 0
        ELSE /\ call.gen.success
             /\ call.gen.sql_query = clean_sql_query(str_strip(call.response.content))

\* text with the marker lead removed from its start and trail from its end
Between(text, lead, trail) == DropLast(DropFirst(text, Len(lead)), Len(trail))

\* C24: _clean_sql_query removes at most one leading and at most one
\* trailing code-fence marker, trims the whitespace around the rest, appends
\* ';' only when the rest does not end with one, and changes nothing else;
\* the result ends with ';'.
C24_CleanOnlyNormalises ==
    call.fn = "_clean_sql_query" =>
        /\ str_endswith(call.cleaned, <<";">>)
        /\ \E lead \in {<<>>, Fence, FenceSql}, trail \in {<<>>, Fence} :
               /\ Len(lead) + Len(trail) <= Len(call.response.content)
               /\ str_startswith(call.response.content, lead)
               /\ str_endswith(call.response.content, trail)
               /\ LET rest == str_strip(Between(call.response.content, lead, trail))
                  IN  call.cleaned = IF str_endswith(rest, <<";">>) THEN rest
                                     ELSE rest \o <<";">>

(***************************************************************************)
(* Determinism of the validator (SpecGate)                                 *)
(***************************************************************************)
\* C23: validate_sql is a deterministic function of its input with a fixed
\* order of checks: every evaluation of the same text returns the pair this
\* call returned, and a rejection by a blocklist names a blocklisted word
\* that the text contains, keywords before functions.
C23_ValidateDeterministic ==
    call.fn = "validate_sql" =>
        LET normalised == normalize_query(call.sql)
        IN  /\ \A v \in validate_sql(call.sql) : v = call.verdict
            /\ keyword_hits(normalised) # {} =>
                   /\ call.verdict.reason[1] = "Dangerous SQL keyword is not allowed"
                   /\ call.verdict.reason[2] \in keyword_hits(normalised)
            /\ (keyword_hits(normalised) = {} /\ function_hits(normalised) # {}) =>
                   /\ call.verdict.reason[1] = "Dangerous function is not allowed"
                   /\ call.verdict.reason[2] \in function_hits(normalised)

(***************************************************************************)
(* Messages of concurrent requests (Spec)                                  *)
(***************************************************************************)
\* The places in the session's message order of the rows the run wrote
MessagesOf(run, role) ==
    {n \in 1..Len(messages) : messages[n].run = run /\ messages[n].role = role}

\* C26: a request that has returned added no message, or exactly one user
\* message and exactly one assistant message, and its user message is
\* immediately followed by its assistant message, also when two requests of
\* the session run concurrently.
C26_QuestionThenItsAnswer ==
    \A w \in Workers :
        (worker[w].pc = "done" /\ worker[w].run > 0) =>
            /\ Cardinality(MessagesOf(worker[w].run, "user")) = 1
            /\ Cardinality(MessagesOf(worker[w].run, "assistant")) = 1
            /\ \A n \in MessagesOf(worker[w].run, "user") :
                   (n + 1) \in MessagesOf(worker[w].run, "assistant")

(***************************************************************************)
(* DatabaseManager.update_schema_cache and the setup_schema command        *)
(***************************************************************************)
\* A row of information_schema as schema_query selects it
SchemaRow(table_name, column_name) ==
    [table_name |-> table_name, column_name |-> column_name]

\* The rows of the warehouse, ORDER BY table_name, ordinal_position
WarehouseRows ==
    <<SchemaRow("players", "id"), SchemaRow("teams", "id"), SchemaRow("teams", "wins")>>

\* What execute_query(schema_query) returns: (success, results)
SchemaFetch(success, results) == [success |-> success, results |-> results]

RECURSIVE Subsequence(_, _)
Subsequence(rows, keep) ==
    IF rows = <<>> THEN <<>>
    ELSE Subsequence(SubSeq(rows, 1, Len(rows) - 1), keep)
         \o (IF Len(rows) \in keep THEN <<rows[Len(rows)]>> ELSE <<>>)

\* The answers of the warehouse: a failure, or the rows of the tables that
\* exist at the time (none when the warehouse schema is empty)
SchemaFetches ==
    {SchemaFetch(FALSE, <<>>)}
    \cup {SchemaFetch(TRUE, Subsequence(WarehouseRows, keep)) :
              keep \in SUBSET (1..Len(WarehouseRows))}

\* get_schema_info: {} when the query failed, else the rows grouped by table
\* in the order the tables first appear
RECURSIVE group_by_table(_)
group_by_table(results) ==
    IF results = <<>> THEN <<>>
    ELSE LET row == results[Len(results)]
             head == group_by_table(SubSeq(results, 1, Len(results) - 1))
             at == {i \in 1..Len(head) : head[i].table_name = row.table_name}
         IN  IF at = {}
             THEN Append(head, [table_name |-> row.table_name, columns |-> <<row>>])
             ELSE [i \in 1..Len(head) |->
                      IF i \in at
                      THEN [head[i] EXCEPT !.columns = Append(head[i].columns, row)]
                      ELSE head[i]]

get_schema_info(fetch) ==
    IF ~fetch.success THEN <<>> ELSE group_by_table(fetch.results)

\* The DatabaseSchema objects update_schema_cache builds from schema_info
RECURSIVE schema_objects(_)
schema_objects(schema_info) ==
    IF schema_info = <<>> THEN <<>>
    ELSE LET item == schema_info[1]
         IN  [k \in 1..Len(item.columns) |->
                  SchemaRow(item.table_name, item.columns[k].column_name)]
             \o schema_objects(Tail(schema_info))

\* update_schema_cache on the table rows with the warehouse answering fetch:
\* the rows of the table afterwards
update_schema_cache(rows, fetch) ==
    LET cleared == <<>>
        objects == schema_objects(get_schema_info(fetch))
    IN  IF objects # <<>> THEN cleared \o objects ELSE cleared

InitCache ==
    /\ call = NoCall
    /\ PipelineInit
    /\ schema = FreshSchema(DeployedSource)

\* DatabaseManager.update_schema_cache()
UpdateSchemaCache ==
    \E fetch \in SchemaFetches :
        /\ call' = [call EXCEPT !.fn = "update_schema_cache",
                                !.before = call.DatabaseSchema,
                                !.schema_info = get_schema_info(fetch),
                                !.DatabaseSchema =
                                    update_schema_cache(call.DatabaseSchema, fetch)]
        /\ UNCHANGED <<worker, messages, queryLog, cursorLog, connCount, runCount, schema>>

\* manage.py setup_schema [--force]
SetupSchema ==
    \E force \in BOOLEAN, fetch \in SchemaFetches :
        /\ call' = IF call.DatabaseSchema # <<>> /\ ~force
                   THEN [call EXCEPT !.fn = "setup_schema", !.force = force,
                                     !.before = call.DatabaseSchema,
                                     !.schema_info = <<>>]
                   ELSE [call EXCEPT !.fn = "setup_schema", !.force = force,
                                     !.before = call.DatabaseSchema,
                                     !.schema_info = get_schema_info(fetch),
                                     !.DatabaseSchema =
                                         update_schema_cache(call.DatabaseSchema, fetch)]
        /\ UNCHANGED <<worker, messages, queryLog, cursorLog, connCount, runCount, schema>>

NextCache == UpdateSchemaCache \/ SetupSchema

SpecCache == InitCache /\ [][NextCache]_vars

\* C27: when update_schema_cache cannot fetch a fresh schema (the query
\* fails or returns no rows), the rows cached before the call are still
\* present after it.
C27_FailedRefreshKeepsRows ==
    (call.fn = "update_schema_cache" /\ call.schema_info = <<>>) =>
        call.DatabaseSchema = call.before

(***************************************************************************)
(* SchemaManager.reload_schema (SpecSchema)                                *)
(***************************************************************************)
\* reload_schema has returned
Reloaded == schema.loader.pc = "idle" /\ schema.loader.reload_schema # "none"

\* The source reload_schema met was read and a catalog was built from it
RereadSuccessfully ==
    /\ schema.loader.opened
    /\ schema.loader.read.exists
    /\ ~build_schema_info(schema.loader.read.doc).raised
    /\ schema.loader.returned.catalog =
           Catalog(build_schema_info(schema.loader.read.doc).value)

\* C28: reload_schema re-reads the source whatever the marker was, and
\* returns True only if the source was re-read successfully: False when the
\* file is missing or cannot be parsed.
C28_ReloadReportsOutcome ==
    Reloaded =>
        /\ schema.loader.found.exists => schema.loader.opened
        /\ schema.loader.reload_schema = "True" => RereadSuccessfully
        /\ (\/ ~schema.loader.found.exists
            \/ ~schema.loader.found.doc.parses) => schema.loader.reload_schema = "False"

(***************************************************************************)
(* SchemaManager.validate_schema_file and get_schema_summary (SpecValidate)*)
(***************************************************************************)
\* (is_valid, error_message), the message in pieces
Validity(is_valid, error_message) ==
    [called |-> TRUE, is_valid |-> is_valid, error_message |-> error_message]

\* for j, column in enumerate(columns): the first message, <<>> if none
RECURSIVE validate_columns(_, _, _)
validate_columns(columns, j, table_name) ==
    IF columns = <<>> THEN <<>>
    ELSE IF ~Head(columns).is_mapping
    THEN <<"Column ", ToString(j), " in table '", table_name, "' must be a dictionary">>
    ELSE IF "name" \notin Head(columns).keys
    THEN <<"Column ", ToString(j), " in table '", table_name, "' missing 'name' field">>
    ELSE validate_columns(Tail(columns), j + 1, table_name)

\* for i, table in enumerate(tables), list format
RECURSIVE validate_table_list(_, _)
validate_table_list(tables, i) ==
    IF tables = <<>> THEN <<>>
    ELSE LET table == Head(tables)
         IN  IF ~table.is_mapping
             THEN <<"Table ", ToString(i), " must be a dictionary">>
             ELSE IF "name" \notin table.keys
             THEN <<"Table ", ToString(i), " missing 'name' field">>
             ELSE IF "columns" \in table.keys /\ table.columns_kind # "list"
             THEN <<"Columns for table '", table.name, "' must be a list">>
             ELSE LET columns == IF "columns" \in table.keys THEN table.columns ELSE <<>>
                      found == validate_columns(columns, 0, table.name)
                  IN  IF found # <<>> THEN found
                      ELSE validate_table_list(Tail(tables), i + 1)

\* for table_name, columns in tables.items(), dict format
RECURSIVE validate_table_dict(_)
validate_table_dict(tables) ==
    IF tables = <<>> THEN <<>>
    ELSE LET table == Head(tables)
         IN  IF table.columns_kind # "list"
             THEN <<"Columns for table '", table.name, "' must be a list">>
             ELSE LET found == validate_columns(table.columns, 0, table.name)
                  IN  IF found # <<>> THEN found
                      ELSE validate_table_dict(Tail(tables))

validate_schema_file(source) ==
    IF ~source.exists THEN Validity(FALSE, <<"Schema file not found: ">>)
    ELSE IF ~source.doc.parses THEN Validity(FALSE, <<"YAML parsing error: ">>)
    ELSE IF source.doc.kind # "mapping"
    THEN Validity(FALSE, <<"Schema file must contain a dictionary">>)
    ELSE IF "tables" \notin source.doc.keys
    THEN Validity(FALSE, <<"Schema file must contain 'tables' key">>)
    ELSE IF source.doc.tables_kind \notin {"dict", "list"}
    THEN Validity(FALSE, <<"'tables' must be a dictionary or list">>)
    ELSE LET found == IF source.doc.tables_kind = "list"
                      THEN validate_table_list(source.doc.tables, 0)
                      ELSE validate_table_dict(source.doc.tables)
         IN  IF found # <<>> THEN Validity(FALSE, found)
             ELSE Validity(TRUE, <<"Schema file is valid">>)

\* sum(len(columns) for columns in schema_info.values())
RECURSIVE total_columns(_)
total_columns(schema_info) ==
    IF schema_info = <<>> THEN 0
    ELSE Len(schema_info[1][2]) + total_columns(Tail(schema_info))

\* get_schema_summary on the catalog load_schema_from_yaml returned
get_schema_summary(source, schema_info) ==
    [called |-> TRUE,
     file_exists |-> source.exists,
     table_count |-> Len(schema_info),
     total_columns |-> total_columns(schema_info),
     tables |-> [i \in 1..Len(schema_info) |->
                    [table_name |-> schema_info[i][1],
                     column_count |-> Len(schema_info[i][2]),
                     columns |-> [k \in 1..Len(schema_info[i][2]) |->
                                     schema_info[i][2][k].column_name]]]]

\* The most tables of a generated document and the most columns of a table
MaxTables == 2

MaxColumns == 2

\* Column lists and tables of the generated documents
ColumnLists ==
    UNION {[1..n -> {Col_id, Col_wins}] : n \in 0..MaxColumns}

ListTables ==
    {YamlTable({"name", "columns"}, name, "list", columns) :
         name \in {"teams", "games"}, columns \in ColumnLists}
    \cup {YamlTable({"name"}, "teams", "list", <<>>),
          YamlTable({"columns"}, "", "list", <<Col_id>>),
          YamlTable({"name", "columns"}, "teams", "str", <<YamlScalar>>),
          YamlTable({"name", "columns"}, "teams", "list", <<YamlColumn({"type"}, "", "int")>>)}

DictTables ==
    {YamlTable({}, name, "list", columns) :
         name \in {"teams", "games"}, columns \in ColumnLists}
    \cup {YamlTable({}, "teams", "str", <<YamlScalar>>)}

\* The documents: every list of at most MaxTables tables in list format,
\* every mapping of at most MaxTables distinct names in dict format, and the
\* documents of the deployment
GeneratedDocuments ==
    {YamlDocument(TRUE, "mapping", {"tables"}, "list", tables) :
         tables \in UNION {[1..n -> ListTables] : n \in 0..MaxTables}}
    \cup {YamlDocument(TRUE, "mapping", {"tables"}, "dict", tables) :
              tables \in {t \in UNION {[1..n -> DictTables] : n \in 0..MaxTables} :
                              \A i, j \in 1..Len(t) : t[i].name = t[j].name => i = j}}
    \cup Documents

InitValidate ==
    /\ call = NoCall
    /\ PipelineInit
    /\ schema \in {FreshSchema(Source(TRUE, 1, d)) : d \in GeneratedDocuments}
                  \cup {FreshSchema(Source(FALSE, 1, D_unparseable))}

\* validate_schema_file()
ValidateSchemaFile ==
    /\ ~call.valid.called
    /\ call' = [call EXCEPT !.fn = "validate_schema_file",
                            !.valid = validate_schema_file(schema.source)]
    /\ UNCHANGED <<worker, messages, queryLog, cursorLog, connCount, runCount, schema>>

\* get_schema_summary(): load_schema_from_yaml, then the counts
GetSchemaSummary ==
    /\ schema.loader.pc = "idle"
    /\ ~call.summary.called
    /\ LET after == load_schema_from_yaml(schema)
       IN  /\ schema' = after
           /\ call' = [call EXCEPT !.fn = "get_schema_summary",
                           !.summary = get_schema_summary(
                                           schema.source,
                                           after.loader.returned.catalog.tables)]
    /\ UNCHANGED <<worker, messages, queryLog, cursorLog, connCount, runCount>>

NextValidate == ValidateSchemaFile \/ GetSchemaSummary \/ CheckSource \/ ReadSource

SpecValidate == InitValidate /\ [][NextValidate]_vars

\* The columns of the document's table, as names
RECURSIVE DocumentColumns(_)
DocumentColumns(tables) ==
    IF tables = <<>> THEN 0
    ELSE Len(Head(tables).columns) + DocumentColumns(Tail(tables))

\* The catalog holds the table with exactly its columns in source order
InCatalog(table, schema_info) ==
    \E i \in 1..Len(schema_info) :
        /\ schema_info[i][1] = table.name
        /\ Len(schema_info[i][2]) = Len(table.columns)
        /\ \A k \in 1..Len(table.columns) :
               schema_info[i][2][k].column_name = table.columns[k].name

\* C29: for a document validate_schema_file accepts, the catalog
\* load_schema_from_yaml returns holds every table of the document with all
\* its columns in source order, and the summary's table count and total
\* column count are the document's.
C29_AcceptedDocumentLoadsWhole ==
    (call.valid.called /\ call.valid.is_valid /\ call.summary.called) =>
        LET tables == schema.source.doc.tables
            schema_info == schema.loader.returned.catalog.tables
        IN  /\ \A i \in 1..Len(tables) : InCatalog(tables[i], schema_info)
            /\ call.summary.table_count = Len(tables)
            /\ call.summary.total_columns = DocumentColumns(tables)

(***************************************************************************)
(* The views on one chat session (SpecSession)                             *)
(***************************************************************************)
\* A ChatSession row with the Message rows of its related manager
ChatSession(user, title, is_active, updated_at, session_messages) ==
    [user |-> user, title |-> title, is_active |-> is_active, updated_at |-> updated_at,
     messages |-> session_messages]

\* request.user, request.user.is_staff and request.method
Request(user, is_staff, method) == [user |-> user, is_staff |-> is_staff, method |-> method]

Requests ==
    {Request(u[1], u[2], m) :
         u \in {<<"alice", FALSE>>, <<"bob", FALSE>>, <<"root", TRUE>>},
         m \in {"GET", "POST"}}

\* The requests the session spec serves
MaxRequests == 4

T_new_chat == <<"N", "e", "w", " ", "C", "h", "a", "t">>

T_title == <<" ", "Q", "1">>

\* get_object_or_404(ChatSession, id=chat_id, user=request.user, is_active=True)
get_own_active(session, request) ==
    session.user = request.user /\ session.is_active

\* chat_session.save(): auto_now sets updated_at
save(session, now) == [session EXCEPT !.updated_at = now]

\* The session after send_message(request) with the posted message, the
\* pipeline succeeding or not
send_message(session, request, message, success, now) ==
    LET user_message == str_strip(message)
        user_msg == [role |-> "user", content |-> user_message]
        assistant_msg == [role |-> "assistant",
                          content |-> IF success THEN T_results ELSE T_sorry]
        answered == [session EXCEPT !.messages = session.messages \o <<user_msg, assistant_msg>>]
    IN  IF request.method # "POST" THEN session
        ELSE IF ~get_own_active(session, request) THEN session
        ELSE IF user_message = <<>> THEN session
        ELSE IF ~success THEN answered
        ELSE save(answered, now)

rename_chat(session, request, title, now) ==
    IF ~get_own_active(session, request) THEN session
    ELSE IF request.method = "POST" /\ str_strip(title) # <<>>
    THEN save([session EXCEPT !.title = str_strip(title)], now)
    ELSE session

delete_chat(session, request, now) ==
    IF ~get_own_active(session, request) THEN session
    ELSE IF request.method = "POST" THEN save([session EXCEPT !.is_active = FALSE], now)
    ELSE session

clear_chat(session, request) ==
    IF ~get_own_active(session, request) THEN session
    ELSE IF request.method = "POST" THEN [session EXCEPT !.messages = <<>>]
    ELSE session

\* get_object_or_404(ChatSession, id=chat_id) after the is_staff test
admin_delete_user_chat(session, request, now) ==
    IF ~request.is_staff THEN session
    ELSE IF request.method = "POST" THEN save([session EXCEPT !.is_active = FALSE], now)
    ELSE session

admin_clear_user_chat(session, request) ==
    IF ~request.is_staff THEN session
    ELSE IF request.method = "POST" THEN [session EXCEPT !.messages = <<>>]
    ELSE session

\* The session new_chat created for alice
InitSession ==
    /\ call = [NoCall EXCEPT !.session = ChatSession("alice", T_new_chat, TRUE, 0, <<>>)]
    /\ PipelineInit
    /\ schema = FreshSchema(DeployedSource)

\* The record of the view fn having served the request and left the session
\* as after
Served(fn, request, after) ==
    [call EXCEPT !.fn = fn, !.request = request, !.now = call.now + 1,
                 !.session_before = call.session, !.session = after]

ViewSendMessage ==
    /\ call.now < MaxRequests
    /\ \E request \in Requests, message \in MessageBodies, success \in BOOLEAN :
           call' = Served("send_message", request,
                          send_message(call.session, request, message, success,
                                       call.now + 1))
    /\ UNCHANGED <<worker, messages, queryLog, cursorLog, connCount, runCount, schema>>

ViewRenameChat ==
    /\ call.now < MaxRequests
    /\ \E request \in Requests, title \in {F_space, T_title} :
           call' = Served("rename_chat", request,
                          rename_chat(call.session, request, title, call.now + 1))
    /\ UNCHANGED <<worker, messages, queryLog, cursorLog, connCount, runCount, schema>>

ViewDeleteChat ==
    /\ call.now < MaxRequests
    /\ \E request \in Requests :
           call' = Served("delete_chat", request,
                          delete_chat(call.session, request, call.now + 1))
    /\ UNCHANGED <<worker, messages, queryLog, cursorLog, connCount, runCount, schema>>

ViewClearChat ==
    /\ call.now < MaxRequests
    /\ \E request \in Requests :
           call' = Served("clear_chat", request, clear_chat(call.session, request))
    /\ UNCHANGED <<worker, messages, queryLog, cursorLog, connCount, runCount, schema>>

ViewAdminDeleteUserChat ==
    /\ call.now < MaxRequests
    /\ \E request \in Requests :
           call' = Served("admin_delete_user_chat", request,
                          admin_delete_user_chat(call.session, request, call.now + 1))
    /\ UNCHANGED <<worker, messages, queryLog, cursorLog, connCount, runCount, schema>>

ViewAdminClearUserChat ==
    /\ call.now < MaxRequests
    /\ \E request \in Requests :
           call' = Served("admin_clear_user_chat", request,
                          admin_clear_user_chat(call.session, request))
    /\ UNCHANGED <<worker, messages, queryLog, cursorLog, connCount, runCount, schema>>

NextSession ==
    \/ ViewSendMessage
    \/ ViewRenameChat
    \/ ViewDeleteChat
    \/ ViewClearChat
    \/ ViewAdminDeleteUserChat
    \/ ViewAdminClearUserChat

SpecSession == InitSession /\ [][NextSession]_vars

\* The views of the users who are not staff
UserViews == {"send_message", "rename_chat", "delete_chat", "clear_chat"}

\* C30: a view operation served on a soft-deleted session leaves its
\* messages and its fields as they were, and a user view changes a session
\* only if it was active and owned by the requesting user.
C30_DeletedSessionIsFrozen ==
    call.fn # "none" =>
        /\ ~call.session_before.is_active => call.session = call.session_before
        /\ (call.fn \in UserViews /\ call.session # call.session_before) =>
               /\ call.session_before.is_active
               /\ call.session_before.user = call.request.user

====
